---- MODULE Spec2Model ----
(***************************************************************************)
(* Model of the EXT3/EXT4 journal analyzer (journalViewer).                *)
(*                                                                         *)
(* Bytes are numbers 0..255.  A journal block is held as the sequence of   *)
(* its leading bytes; every byte past the end of that sequence, up to      *)
(* BLOCK_SIZE, is zero.  A uint32_t value is held as the tuple of its four *)
(* bytes, most significant first, because the values that matter here      *)
(* (magic numbers, sequence numbers at and above 2^31) do not fit the      *)
(* integers of the model checker.  The host is little-endian, as the       *)
(* source assumes throughout (__builtin_bswap32 turns the on-disk          *)
(* big-endian fields into host order).                                     *)
(***************************************************************************)
EXTENDS Integers, Sequences, FiniteSets, TLC

(***************************************************************************)
(* Bounds of the model.                                                    *)
(***************************************************************************)
\* Longest journal scanned, in 4 KiB blocks.
MaxBlocks == 3

(***************************************************************************)
(* Program constants.                                                      *)
(***************************************************************************)
BLOCK_SIZE == 4096
JOURNAL_HEADER_SIZE == 12
EXT4_INODE_SIZE == 128
MAX_READ_SIZE == 1048576

(***************************************************************************)
(* uint32_t values as byte tuples <<b3, b2, b1, b0>>, b3 most significant. *)
(***************************************************************************)
Byte == 0..255

\* The uint32_t with value n, for 0 <= n < 2^31.
U32(n) == <<(n \div 16777216) % 256, (n \div 65536) % 256, (n \div 256) % 256, n % 256>>

U32Zero == <<0, 0, 0, 0>>

\* Unsigned comparison a < b.
U32Lt(a, b) ==
    \/ a[1] < b[1]
    \/ a[1] = b[1] /\ a[2] < b[2]
    \/ a[1] = b[1] /\ a[2] = b[2] /\ a[3] < b[3]
    \/ a[1] = b[1] /\ a[2] = b[2] /\ a[3] = b[3] /\ a[4] < b[4]

U32Le(a, b) == a = b \/ U32Lt(a, b)

\* static_cast<int32_t>(w) / (int)w: the two's complement reading of w.
AsInt32(w) ==
    (IF w[1] >= 128 THEN w[1] - 256 ELSE w[1]) * 16777216
        + w[2] * 65536 + w[3] * 256 + w[4]

\* a - b modulo 2^32, computed bytewise with borrow.
U32Sub(a, b) ==
    LET d4 == a[4] - b[4]
        c4 == IF d4 < 0 THEN 1 ELSE 0
        d3 == a[3] - b[3] - c4
        c3 == IF d3 < 0 THEN 1 ELSE 0
        d2 == a[2] - b[2] - c3
        c2 == IF d2 < 0 THEN 1 ELSE 0
        d1 == a[1] - b[1] - c2
    IN  <<d1 % 256, d2 % 256, d3 % 256, d4 % 256>>

\* __builtin_bswap32
bswap32(w) == <<w[4], w[3], w[2], w[1]>>

(***************************************************************************)
(* Buffers.                                                                *)
(***************************************************************************)
\* data[i] of a buffer held as its leading bytes (0-based index).
ByteAt(data, i) == IF i < Len(data) THEN data[i + 1] ELSE 0

\* data + n
Skip(data, n) == IF n >= Len(data) THEN <<>> ELSE SubSeq(data, n + 1, Len(data))

\* memcpy(&x, data + off, 4) into a uint32_t on the little-endian host.
Load32(data, off) ==
    <<ByteAt(data, off + 3), ByteAt(data, off + 2), ByteAt(data, off + 1), ByteAt(data, off)>>

\* memcpy(&x, data + off, 2) into a uint16_t on the little-endian host.
Load16(data, off) == ByteAt(data, off + 1) * 256 + ByteAt(data, off)

\* The four bytes that store v big-endian (as the journal does on disk).
big32(v) == <<v[1], v[2], v[3], v[4]>>

(***************************************************************************)
(* Journal magic numbers as the source writes them (host-order values).    *)
(***************************************************************************)
JBD2_MAGIC == <<\H98, \H39, \HB3, \HC0>>
JBD_MAGIC == <<\H98, \H39, \H3B, \HC0>>
\* The JBD2 magic of the on-disk format, 0xC03B3998.
JOURNAL_MAGIC == <<\HC0, \H3B, \H39, \H98>>

DESCRIPTOR == U32(1)
COMMIT == U32(2)
SUPERBLOCK_V1 == U32(3)
SUPERBLOCK_V2 == U32(4)
REVOCATION == U32(5)

(***************************************************************************)
(* JournalParser::parseJournalHeader                                       *)
(***************************************************************************)
parseJournalHeader(data) ==
    LET magic == Load32(data, 0)
        block_type_be == Load32(data, 4)
        sequence_be == Load32(data, 8)
    IN  [ok |-> magic = JBD2_MAGIC \/ magic = JBD_MAGIC,
         magic |-> magic,
         block_type |-> bswap32(block_type_be),
         sequence |-> bswap32(sequence_be)]

(***************************************************************************)
(* JournalParser::parseDescriptorBlock                                     *)
(***************************************************************************)
\* A validation that admits fs_block_num = 0x7FFFFFFF.
TagAccepted_Inclusive(fs_block_num, flags) ==
    /\ U32Lt(U32Zero, fs_block_num)
    /\ U32Le(fs_block_num, <<\H7F, \HFF, \HFF, \HFF>>)
    /\ U32Le(flags, U32(255))

TagAccepted(fs_block_num, flags) ==
    /\ U32Lt(U32Zero, fs_block_num)
    /\ U32Lt(fs_block_num, <<\H7F, \HFF, \HFF, \HFF>>)
    /\ U32Le(flags, U32(255))

RECURSIVE DescriptorLoop(_, _, _, _)
DescriptorLoop(data, size, i, entries) ==
    IF ~(i < size \div 8 /\ i * 8 + 8 <= size)
    THEN entries
    ELSE LET fs_block_num == bswap32(Load32(data, i * 8))
             flags == bswap32(Load32(data, i * 8 + 4))
             pushed == IF TagAccepted(fs_block_num, flags)
                       THEN Append(entries, [fs_block_num |-> fs_block_num, flags |-> flags])
                       ELSE entries
         IN  IF fs_block_num = U32Zero /\ flags = U32Zero
             THEN pushed
             ELSE DescriptorLoop(data, size, i + 1, pushed)

parseDescriptorBlock(data, size) ==
    IF size < 8 THEN <<>> ELSE DescriptorLoop(data, size, 0, <<>>)

(***************************************************************************)
(* JournalParser::parseInodeBlock                                          *)
(*                                                                         *)
(* A slot that starts past the leading bytes of the buffer is all zero and *)
(* has mode 0, so it is never pushed: the loop over the size / 128 slots   *)
(* is evaluated over the slots that overlap the leading bytes.             *)
(***************************************************************************)
Min(a, b) == IF a < b THEN a ELSE b

LoadInode(data, base) ==
    [mode |-> Load16(data, base),
     size_lo |-> Load32(data, base + 4),
     ctime |-> Load32(data, base + 12),
     mtime |-> Load32(data, base + 16),
     dtime |-> Load32(data, base + 20),
     links_count |-> Load16(data, base + 26),
     flags |-> Load32(data, base + 32),
     size_hi |-> Load32(data, base + 108)]

InodeLooksValid(inode) ==
    inode.mode # 0 /\ inode.links_count > 0 /\ inode.links_count < 65536

RECURSIVE InodeLoop(_, _, _, _)
InodeLoop(data, max_inodes, i, acc) ==
    IF ~(i < max_inodes)
    THEN acc
    ELSE LET inode == LoadInode(data, i * EXT4_INODE_SIZE)
         IN  InodeLoop(data, max_inodes, i + 1,
                 IF InodeLooksValid(inode)
                 THEN [inodes |-> Append(acc.inodes, inode),
                       inode_numbers |-> Append(acc.inode_numbers, i + 1)]
                 ELSE acc)

parseInodeBlock(data, size) ==
    IF size < EXT4_INODE_SIZE
    THEN [ok |-> FALSE, inodes |-> <<>>, inode_numbers |-> <<>>]
    ELSE LET max_inodes == Min(size \div EXT4_INODE_SIZE,
                               (Len(data) + EXT4_INODE_SIZE - 1) \div EXT4_INODE_SIZE)
             r == InodeLoop(data, max_inodes, 0, [inodes |-> <<>>, inode_numbers |-> <<>>])
         IN  [ok |-> r.inodes # <<>>, inodes |-> r.inodes, inode_numbers |-> r.inode_numbers]

(***************************************************************************)
(* JournalParser::identifyBlockType                                        *)
(*                                                                         *)
(* pattern_count counts the 4-byte words at offsets 0, 4, ... < size - 4   *)
(* that are non-zero and below 0xFFFFFF; words past the leading bytes are  *)
(* zero and are never counted.                                             *)
(***************************************************************************)
PatternCount(data, size) ==
    LET last == Min((size - 5) \div 4, (Len(data) + 3) \div 4)
    IN  Cardinality({k \in 0..last :
            LET value == Load32(data, 4 * k)
            IN  value # U32Zero /\ U32Lt(value, U32(16777215))})

identifyBlockType(data, size) ==
    IF size < 16 THEN "UNKNOWN"
    ELSE LET temp == parseInodeBlock(data, size)
             inode_num == Load32(data, 0)
             rec_len == Load16(data, 4)
             name_len == ByteAt(data, 6)
         IN  IF temp.ok /\ Len(temp.inodes) >= 2 THEN "INODE_TABLE"
             ELSE IF /\ U32Lt(U32Zero, inode_num) /\ U32Lt(inode_num, U32(16777215))
                     /\ rec_len >= 8 /\ rec_len <= size
                     /\ name_len > 0 /\ name_len < 256
                  THEN "DIRECTORY"
             ELSE IF PatternCount(data, size) > size \div 16 THEN "METADATA"
             ELSE "FILE_DATA"

(***************************************************************************)
(* JournalParser::getFileTypeString                                        *)
(***************************************************************************)
\* A table lookup that compares the whole mode, without the 0xF000 mask.
getFileTypeString_NoMask(mode) ==
    CASE mode = 32768 -> "regular_file"
      [] mode = 16384 -> "directory"
      [] mode = 40960 -> "symlink"
      [] mode = 8192 -> "char_device"
      [] mode = 24576 -> "block_device"
      [] mode = 4096 -> "fifo"
      [] mode = 49152 -> "socket"
      [] OTHER -> "unknown"

getFileTypeString(mode) ==
    LET file_type == (mode \div 4096) * 4096
    IN  CASE file_type = 32768 -> "regular_file"
          [] file_type = 16384 -> "directory"
          [] file_type = 40960 -> "symlink"
          [] file_type = 8192 -> "char_device"
          [] file_type = 24576 -> "block_device"
          [] file_type = 4096 -> "fifo"
          [] file_type = 49152 -> "socket"
          [] OTHER -> "unknown"

(***************************************************************************)
(* JournalParser::parseDirectoryBlock                                      *)
(* Names are byte sequences.                                               *)
(***************************************************************************)
\* "<binary_name>"
BINARY_NAME == <<60, 98, 105, 110, 97, 114, 121, 95, 110, 97, 109, 101, 62>>
\* "." and ".."
DOT == <<46>>
DOTDOT == <<46, 46>>

\* The test of one char of a name: a signed char below 0x20 or above 0x7E,
\* other than 0, makes the name binary (bytes 0x80..0xFF are negative chars).
NameCharOk(c) == c = 0 \/ (c >= 32 /\ c <= 126)

RECURSIVE DirectoryLoop(_, _, _, _)
DirectoryLoop(data, size, offset, entries) ==
    IF ~(offset < size) \/ offset + 8 > size
    THEN entries
    ELSE LET inode == Load32(data, offset)
             rec_len == Load16(data, offset + 4)
             name_len == ByteAt(data, offset + 6)
             file_type == ByteAt(data, offset + 7)
         IN  IF rec_len = 0 \/ rec_len > size - offset THEN entries
             ELSE IF name_len > rec_len - 8 THEN entries
             ELSE LET raw == [k \in 1..name_len |-> ByteAt(data, offset + 8 + k - 1)]
                      name == IF name_len > 0 /\ offset + 8 + name_len <= size
                              THEN IF \A k \in 1..name_len : NameCharOk(raw[k])
                                   THEN raw ELSE BINARY_NAME
                              ELSE <<>>
                      entry == [inode |-> inode, rec_len |-> rec_len,
                                name_len |-> name_len, file_type |-> file_type,
                                name |-> name]
                      pushed == IF /\ U32Lt(U32Zero, inode)
                                   /\ U32Lt(inode, <<255, 255, 255, 255>>)
                                   /\ name_len < 256 /\ rec_len >= 8
                                THEN Append(entries, entry) ELSE entries
                  IN  IF rec_len < 8 THEN pushed
                      ELSE DirectoryLoop(data, size, offset + rec_len, pushed)

parseDirectoryBlock(data, size) ==
    IF size < 8 THEN [ok |-> FALSE, entries |-> <<>>]
    ELSE LET entries == DirectoryLoop(data, size, 0, <<>>)
         IN  [ok |-> entries # <<>>, entries |-> entries]

(***************************************************************************)
(* JournalParser::inferFileOperation (called with no inodes) and           *)
(* JournalParser::getOperationTypeString                                   *)
(***************************************************************************)
RECURSIVE InferLoop(_, _)
InferLoop(entries, i) ==
    IF i > Len(entries) THEN "unknown"
    ELSE LET entry == entries[i]
         IN  IF entry.inode # U32Zero /\ entry.name # DOT /\ entry.name # DOTDOT
             THEN CASE entry.file_type = 1 -> "file_created"
                    [] entry.file_type = 2 -> "directory_created"
                    [] entry.file_type = 7 -> "file_created"
                    [] OTHER -> "file_created"
             ELSE InferLoop(entries, i + 1)

inferFileOperation(entries) ==
    IF entries = <<>> THEN "unknown" ELSE InferLoop(entries, 1)

(***************************************************************************)
(* JournalParser::analyzeDirectoryChanges and getChangeTypeString          *)
(***************************************************************************)
\* std::string::find(pat) != npos
Contains(str, pat) ==
    \E i \in 1..(Len(str) - Len(pat) + 1) : SubSeq(str, i, i + Len(pat) - 1) = pat

RECURSIVE ChangesLoop(_, _)
ChangesLoop(entries, i) ==
    IF i > Len(entries) THEN "unknown"
    ELSE LET entry == entries[i]
         IN  IF entry.inode # U32Zero /\ entry.name # DOT /\ entry.name # DOTDOT
             THEN IF Contains(entry.name, <<126>>) \/ Contains(entry.name, <<46, 116, 109, 112>>)
                  THEN "modified_entry" ELSE "new_entry"
             ELSE ChangesLoop(entries, i + 1)

analyzeDirectoryChanges(entries) ==
    IF entries = <<>> THEN "unknown" ELSE ChangesLoop(entries, 1)

(***************************************************************************)
(* JournalParser::analyzeDataBlockStrings: the printable strings of a      *)
(* block and the three content indicators drawn from them.                 *)
(***************************************************************************)
\* std::isprint(c) && c != '\0' for a char c (a byte above 0x7F is a negative
\* char, which no isprint implementation classifies as printable).
IsPrint(c) == c >= 32 /\ c <= 126

\* ::tolower
ToLower(str) == [k \in 1..Len(str) |-> IF str[k] >= 65 /\ str[k] <= 90 THEN str[k] + 32 ELSE str[k]]

\* The loop over the bytes, one step per run of bytes: from i, a run of
\* printable bytes is a string (kept when it has 3 bytes or more) and a run of
\* other bytes ends the current string.  The scan stops at the end of the
\* leading bytes: the zero bytes that follow start no new string.
RECURSIVE StringLoop(_, _, _, _)
StringLoop(data, n, i, strings) ==
    IF ~(i < n) THEN strings
    ELSE LET same == IsPrint(ByteAt(data, i))
             stops == {k \in (i + 1)..n : k = n \/ IsPrint(ByteAt(data, k)) # same}
             stop == CHOOSE k \in stops : \A other \in stops : k <= other
             current_string == [k \in 1..(stop - i) |-> ByteAt(data, i + k - 1)]
         IN  StringLoop(data, n, stop,
                 IF same /\ Len(current_string) >= 3
                 THEN Append(strings, current_string) ELSE strings)

analyzeDataBlockStrings(data, size) ==
    LET strings == IF size = 0 THEN <<>> ELSE StringLoop(data, Min(size, Len(data)), 0, <<>>)
        AnyString(lower, pats) == \E k \in 1..Len(strings) : \E pat \in pats :
                                Contains(IF lower THEN ToLower(strings[k]) ELSE strings[k], pat)
    IN  [total_printable_strings |-> Len(strings),
         contains_text_files |->
             \/ AnyString(TRUE, {<<46, 116, 120, 116>>, <<46, 108, 111, 103>>, <<46, 109, 100>>})
             \/ AnyString(FALSE, {<<84, 104, 101, 32>>, <<84, 104, 105, 115, 32>>}),
         contains_config_files |->
             \/ AnyString(TRUE, {<<46, 99, 111, 110, 102>>, <<46, 99, 102, 103>>, <<46, 105, 110, 105>>,
                           <<99, 111, 110, 102, 105, 103>>})
             \/ AnyString(FALSE, {<<61>>}),
         contains_log_entries |->
             \/ AnyString(TRUE, {<<101, 114, 114, 111, 114>>, <<119, 97, 114, 110, 105, 110, 103>>,
                           <<105, 110, 102, 111>>, <<100, 101, 98, 117, 103>>})
             \/ AnyString(FALSE, {<<58>>})]

(***************************************************************************)
(* JournalParser::generateRelativeTimestamp                                *)
(*                                                                         *)
(* relative_time is held as [prefix, num]: the text prefix followed by the *)
(* decimal text of num.  The subtraction is done on int32_t values; when   *)
(* it overflows the behaviour is undefined, and the two results a build    *)
(* produces are modelled: the wrapped difference tested for its sign       *)
(* (folded = FALSE), or the sign test folded into a comparison of the two  *)
(* operands with the wrapped difference printed (folded = TRUE).           *)
(***************************************************************************)
SubOverflows(a, b) ==
    LET x == AsInt32(a)
        y == AsInt32(b)
        d == AsInt32(U32Sub(a, b))
    IN  (x >= 0 /\ y < 0 /\ d < 0) \/ (x < 0 /\ y >= 0 /\ d >= 0)

generateRelativeTimestamp(sequence_num, base_sequence, folded) ==
    IF sequence_num = U32Zero THEN [prefix |-> "T+", num |-> 0]
    ELSE LET relative_pos == AsInt32(U32Sub(sequence_num, base_sequence))
             nonneg == IF SubOverflows(sequence_num, base_sequence) /\ folded
                       THEN AsInt32(sequence_num) >= AsInt32(base_sequence)
                       ELSE relative_pos >= 0
         IN  IF nonneg THEN [prefix |-> "T+", num |-> relative_pos]
             ELSE [prefix |-> "T", num |-> relative_pos]

\* The value of a uint32_t below 2^31.
U32Value(v) == ((v[1] * 256 + v[2]) * 256 + v[3]) * 256 + v[4]

(***************************************************************************)
(* DirectoryTreeBuilder, journal_parser.cpp:985-1113.                      *)
(*                                                                         *)
(* A tree is [nodes, path_cache]: two maps keyed by inode number.  Names   *)
(* and paths are byte strings.  name_to_inode is written by updateNode and *)
(* read by nothing, it is left out.  The function-static set visiting of   *)
(* buildFullPath is empty whenever no call is running (every insert is     *)
(* followed by its erase), so it is a parameter of the recursion.          *)
(***************************************************************************)
EXT4_ROOT_INODE == 2
EXT4_LOST_FOUND_INODE == 11
EXT4_FT_DIR_DIR == 2

SLASH == <<47>>
LOST_FOUND_PATH == <<47, 108, 111, 115, 116, 43, 102, 111, 117, 110, 100>>
UNKNOWN_INODE_PREFIX == <<47, 117, 110, 107, 110, 111, 119, 110, 95, 105, 110, 111, 100, 101, 95>>
CYCLE_DETECTED_PREFIX ==
    <<47, 99, 121, 99, 108, 101, 95, 100, 101, 116, 101, 99, 116, 101, 100, 95>>

\* std::to_string of an unsigned value.
RECURSIVE to_string(_)
to_string(n) == IF n < 10 THEN <<48 + n>> ELSE to_string(n \div 10) \o <<48 + (n % 10)>>

\* map[key] = value
Store(map, key, value) ==
    [k \in DOMAIN map \cup {key} |-> IF k = key THEN value ELSE map[k]]

\* DirectoryTreeBuilder::DirectoryTreeBuilder
TreeInit ==
    [nodes |-> Store(<<>>, EXT4_ROOT_INODE,
                     [inode_number |-> EXT4_ROOT_INODE, parent_inode |-> EXT4_ROOT_INODE,
                      name |-> SLASH, full_path |-> SLASH, is_directory |-> TRUE,
                      children |-> <<>>]),
     path_cache |-> Store(<<>>, EXT4_ROOT_INODE, SLASH),
     visiting |-> {}]

\* DirectoryNode::DirectoryNode, what nodes[inode] creates for a new key.
DefaultNode ==
    [inode_number |-> 0, parent_inode |-> 0, name |-> <<>>, full_path |-> <<>>,
     is_directory |-> FALSE, children |-> <<>>]

updateNode(nodes, inode, parent_inode, name, is_dir) ==
    LET node == IF inode \in DOMAIN nodes THEN nodes[inode] ELSE DefaultNode
    IN  Store(nodes, inode,
              [node EXCEPT !.inode_number = inode, !.parent_inode = parent_inode,
                           !.name = name, !.is_directory = is_dir, !.full_path = <<>>])

\* An entry is skipped when its inode is 0 or its name is empty, "." or "..".
EntrySkipped(entry) ==
    entry.inode = 0 \/ entry.name = <<>> \/ entry.name = DOT \/ entry.name = DOTDOT

\* An add that leaves the path cache as it is.
addDirectoryEntry_KeepCache(tree, dir_inode, entry) ==
    IF EntrySkipped(entry) THEN tree
    ELSE [tree EXCEPT !.nodes = updateNode(tree.nodes, entry.inode, dir_inode, entry.name,
                                           entry.file_type = EXT4_FT_DIR_DIR)]

addDirectoryEntry(tree, dir_inode, entry) ==
    LET updated == updateNode(tree.nodes, entry.inode, dir_inode, entry.name,
                              entry.file_type = EXT4_FT_DIR_DIR)
        children == updated[dir_inode].children
        listed == \E k \in 1..Len(children) : children[k] = entry.inode
        linked == IF dir_inode \in DOMAIN updated /\ ~listed
                  THEN [updated EXCEPT ![dir_inode].children = Append(@, entry.inode)]
                  ELSE updated
    IN  IF EntrySkipped(entry) THEN tree
        ELSE [nodes |-> linked, path_cache |-> <<>>, visiting |-> tree.visiting]

\* (inode_data.mode & EXT4_FT_DIR) == EXT4_FT_DIR
addInodeInfo(tree, inode, mode) ==
    IF inode \in DOMAIN tree.nodes
    THEN [tree EXCEPT !.nodes[inode].is_directory = ((mode \div 16384) % 2 = 1)]
    ELSE tree

\* A builder that treats only the root as a special case.
SpecialCase_RootOnly(inode) == inode = EXT4_ROOT_INODE

\* "Handle special cases": the inodes answered without looking at the nodes.
SpecialCase(inode) == inode = EXT4_ROOT_INODE \/ inode = EXT4_LOST_FOUND_INODE

SpecialPath(inode) == IF inode = EXT4_ROOT_INODE THEN SLASH ELSE LOST_FOUND_PATH

\* buildFullPath: the string returned, the path cache and the static set
\* visiting after the call, and the depth of the deepest nested call.
RECURSIVE BuildPath(_, _, _, _)
BuildPath(nodes, path_cache, inode, visiting) ==
    LET Return(path) ==
            [path |-> path, path_cache |-> Store(path_cache, inode, path), depth |-> 1,
             visiting |-> visiting]
        node == nodes[inode]
        parent == IF node.parent_inode = inode \/ node.parent_inode = EXT4_ROOT_INODE
                  THEN [path |-> <<>>, path_cache |-> path_cache, depth |-> 0,
                        visiting |-> visiting \cup {inode}]
                  ELSE BuildPath(nodes, path_cache, node.parent_inode, visiting \cup {inode})
        full_path == IF parent.path = <<>> \/ parent.path = SLASH
                     THEN SLASH \o node.name
                     ELSE parent.path \o SLASH \o node.name
    IN  IF inode \in DOMAIN path_cache
        THEN [path |-> path_cache[inode], path_cache |-> path_cache, depth |-> 1,
              visiting |-> visiting]
        ELSE IF SpecialCase(inode) THEN Return(SpecialPath(inode))
        ELSE IF inode \notin DOMAIN nodes THEN Return(UNKNOWN_INODE_PREFIX \o to_string(inode))
        ELSE IF inode \in visiting THEN Return(CYCLE_DETECTED_PREFIX \o to_string(inode))
        ELSE [path |-> full_path,
              path_cache |-> Store(parent.path_cache, inode, full_path),
              depth |-> parent.depth + 1,
              visiting |-> parent.visiting \ {inode}]

buildFullPath(tree, inode) ==
    LET r == BuildPath(tree.nodes, tree.path_cache, inode, tree.visiting)
    IN  [path |-> r.path, depth |-> r.depth,
         tree |-> [tree EXCEPT !.path_cache = r.path_cache, !.visiting = r.visiting]]

(***************************************************************************)
(* ImageHandler::readBytes over an image held as a sequence of 4 KiB       *)
(* blocks, each readable or not (a bad sector, a short read at the end of  *)
(* the image).  The result carries the bytes read.                         *)
(***************************************************************************)
ReadFailure == [ok |-> FALSE, data |-> <<>>]

\* The backend's seek + read: it succeeds when every byte of the range lies in
\* a block of the image that can be read, and obtains fewer bytes otherwise.
\* The data returned are the leading bytes of the range, up to the last byte
\* that a block of the image stores explicitly.
ImageByte(img, pos) == ByteAt(img[pos \div BLOCK_SIZE + 1].data, pos % BLOCK_SIZE)

StoredEnd(img, j) == (j - 1) * BLOCK_SIZE + Len(img[j].data)

BackendRead(img, adjusted_offset, size) ==
    LET k == adjusted_offset \div BLOCK_SIZE + 1
        last == (adjusted_offset + size - 1) \div BLOCK_SIZE + 1
        ends == {StoredEnd(img, j) : j \in k..last}
        stored == CHOOSE e \in ends : \A f \in ends : f <= e
        len == IF stored <= adjusted_offset THEN 0
               ELSE Min(size, stored - adjusted_offset)
    IN  IF last <= Len(img) /\ \A j \in k..last : img[j].readable
        THEN [ok |-> TRUE, data |-> [i \in 1..len |-> ImageByte(img, adjusted_offset + i - 1)]]
        ELSE ReadFailure

readBytes(img, part_offset, offset, size) ==
    LET adjusted_offset == offset + part_offset
    IN  IF adjusted_offset < 0 \/ size = 0 \/ size > MAX_READ_SIZE
        THEN ReadFailure
        ELSE BackendRead(img, adjusted_offset, size)

(***************************************************************************)
(* State.                                                                  *)
(*                                                                         *)
(*   image             the disk image, a sequence of 4 KiB blocks; the     *)
(*                     blocks of the journal are drawn as the scan reaches *)
(*                     them                                                *)
(*   partition_offset  ImageHandler::partition_offset                      *)
(*   journal_location  ImageHandler::journal_location                      *)
(*   start_seq, end_seq   the sequence filter given to parseJournal        *)
(*   pc                position of parseJournal                            *)
(*   offset            the loop variable of the block scan                 *)
(*   block_buffer, header   the block read last and its decoded header     *)
(*   current_transaction_seq, current_descriptors   the pending batch      *)
(*   transactions      the records emitted so far                          *)
(*   hist              history of the scan (not program state): whether a  *)
(*                     descriptor batch is open and where its descriptor   *)
(*                     block lies, how many batches were opened and closed,*)
(*                     every batch closed and every read issued, and the   *)
(*                     last direct buildFullPath call with its result      *)
(*   directory_tree    JournalParser::directory_tree                       *)
(*   forensic_analysis JournalParser::forensic_analysis, the roll-up       *)
(***************************************************************************)
VARIABLES image, partition_offset, journal_location, start_seq, end_seq,
          pc, offset, block_buffer, header,
          current_transaction_seq, current_descriptors, transactions, hist,
          directory_tree, forensic_analysis

vars == <<image, partition_offset, journal_location, start_seq, end_seq,
          pc, offset, block_buffer, header,
          current_transaction_seq, current_descriptors, transactions, hist,
          directory_tree, forensic_analysis>>

(***************************************************************************)
(* The blocks a journal is drawn from.                                     *)
(***************************************************************************)
\* The four bytes that store v little-endian (EXT4 structures).
little32(v) == <<v[4], v[3], v[2], v[1]>>
little16(n) == <<n % 256, n \div 256>>

Readable(data) == [readable |-> TRUE, data |-> data]
Unreadable == [readable |-> FALSE, data |-> <<>>]

RECURSIVE Flatten(_)
Flatten(seqs) == IF seqs = <<>> THEN <<>> ELSE Head(seqs) \o Flatten(Tail(seqs))

HeaderBytes(magic, block_type, sequence) == big32(magic) \o big32(block_type) \o big32(sequence)
TagBytes(fs_block_num, flags) == big32(fs_block_num) \o big32(flags)
DescriptorBlock(sequence, tags) ==
    Readable(HeaderBytes(JOURNAL_MAGIC, DESCRIPTOR, sequence)
             \o Flatten([k \in 1..Len(tags) |-> TagBytes(tags[k][1], tags[k][2])]))
ControlBlock(block_type, sequence) == Readable(HeaderBytes(JOURNAL_MAGIC, block_type, sequence))
\* One directory entry: the 8-byte head, the name and pad zero bytes.
DirEntryBytes(inode, rec_len, file_type, name, pad) ==
    little32(U32(inode)) \o little16(rec_len) \o <<Len(name), file_type>> \o name
        \o [k \in 1..pad |-> 0]

SeqBig == <<128, 0, 0, 0>>
SeqVals == {U32(0), U32(1), SeqBig}

ZeroBlock == Readable(<<>>)
\* A directory block: "ab" (inode 12, a file) and "c" (inode 13, a directory).
DirBlock == Readable(DirEntryBytes(12, 12, 1, <<97, 98>>, 2)
                     \o DirEntryBytes(13, 4084, 2, <<99>>, 0))
DataBlocks == {ZeroBlock, DirBlock}

GoodTag42 == <<U32(42), U32(0)>>
GoodTag7 == <<U32(7), U32(8)>>
\* fs_block_num 0 with a flag set: rejected, and not the {0,0} padding.
BadTag == <<U32(0), U32(1)>>
TagLists == {<<>>, <<GoodTag42>>, <<GoodTag42, GoodTag7>>, <<BadTag, GoodTag7>>}

DescriptorBlocks == {DescriptorBlock(U32(1), tags) : tags \in TagLists}
                        \cup {DescriptorBlock(U32(0), <<GoodTag42>>)}
CommitBlocks == {ControlBlock(COMMIT, s) : s \in SeqVals}
OtherBlocks == {ControlBlock(REVOCATION, U32(2)), ControlBlock(SUPERBLOCK_V2, U32(0)),
                ControlBlock(U32(9), U32(1))}

JournalBlocks == DataBlocks \cup DescriptorBlocks \cup CommitBlocks \cup OtherBlocks
                     \cup {Unreadable}

\* What lies in the image before the journal.
PreJournalBlocks == <<DirBlock>>
JournalOffsets == {BLOCK_SIZE}
\* Whole blocks, and one block and an eighth of a block.
JournalSizes == {k * BLOCK_SIZE : k \in 1..MaxBlocks} \cup {BLOCK_SIZE + BLOCK_SIZE \div 8}
\* (start_seq, end_seq): no filter, exactly sequence 1, and at most sequence 1.
Filters == {<<-1, -1>>, <<1, 1>>, <<-1, 1>>}

(***************************************************************************)
(* JournalParser::calculateChecksum.  The uint32_t checksum is a byte      *)
(* tuple; the string returned is a sequence of characters.                 *)
(***************************************************************************)
\* a + b and a * b modulo 2^32, computed bytewise with carry.
AddBytes(a, b) ==
    LET s4 == a[4] + b[4]
        s3 == a[3] + b[3] + (s4 \div 256)
        s2 == a[2] + b[2] + (s3 \div 256)
        s1 == a[1] + b[1] + (s2 \div 256)
    IN  <<s1 % 256, s2 % 256, s3 % 256, s4 % 256>>
U32Add(a, b) == CHOOSE s \in {AddBytes(x, y) : x \in {a}, y \in {b}} : TRUE

MulBytes(a, b) ==
    LET p4 == a[4] * b[4]
        p3 == a[4] * b[3] + a[3] * b[4] + (p4 \div 256)
        p2 == a[4] * b[2] + a[3] * b[3] + a[2] * b[4] + (p3 \div 256)
        p1 == a[4] * b[1] + a[3] * b[2] + a[2] * b[3] + a[1] * b[4] + (p2 \div 256)
    IN  <<p1 % 256, p2 % 256, p3 % 256, p4 % 256>>
U32Mul(a, b) == CHOOSE p \in {MulBytes(x, y) : x \in {a}, y \in {b}} : TRUE

\* 31^n modulo 2^32: what n steps checksum = checksum * 31 + 0 multiply by.
RECURSIVE Pow31(_)
Pow31(n) ==
    IF n = 0 THEN U32(1)
    ELSE CHOOSE p \in {IF n % 2 = 1 THEN U32Mul(U32Mul(half, half), U32(31))
                                     ELSE U32Mul(half, half) :
                          half \in {Pow31(n \div 2)}} : TRUE

\* The checksum after the loop has run over data[lo..hi], starting from 0:
\* the loop over data[lo..mid] followed by the loop over data[mid+1..hi].
RECURSIVE ChecksumLoop(_, _, _)
ChecksumLoop(data, lo, hi) ==
    IF lo > hi THEN U32Zero
    ELSE IF lo = hi THEN U32(data[lo])
    ELSE U32Add(U32Mul(ChecksumLoop(data, lo, (lo + hi) \div 2), Pow31(hi - (lo + hi) \div 2)),
                ChecksumLoop(data, (lo + hi) \div 2 + 1, hi))

\* std::hex: the digits of the value without leading zeros, in lower case.
HexChar(d) == IF d < 10 THEN 48 + d ELSE 87 + d
HexDigits(w) ==
    LET nibbles == <<w[1] \div 16, w[1] % 16, w[2] \div 16, w[2] % 16,
                     w[3] \div 16, w[3] % 16, w[4] \div 16, w[4] % 16>>
        zeros == {k \in 0..7 : \A j \in 1..k : nibbles[j] = 0}
        lead == CHOOSE k \in zeros : \A other \in zeros : other <= k
    IN  [k \in 1..(8 - lead) |-> HexChar(nibbles[lead + k])]

\* std::setw(8) << std::setfill('0'): filled on the left up to 8 characters.
SetW8(str) == [k \in 1..(8 - Len(str)) |-> 48] \o str

\* A formatter that prints the digits without the fill.
HexFormat_NoFill(w) == CHOOSE str \in {HexDigits(v) : v \in {w}} : TRUE

HexFormat(w) == CHOOSE str \in {SetW8(HexDigits(v)) : v \in {w}} : TRUE

calculateChecksum(data, size) ==
    IF size = 0 THEN <<>>
    ELSE HexFormat(U32Mul(ChecksumLoop(data, 1, Min(Len(data), size)),
                          Pow31(size - Min(Len(data), size))))

(***************************************************************************)
(* The records parseJournal emits (JournalTransaction).  file_path and     *)
(* file_size are not part of this record.                                  *)
(***************************************************************************)
(***************************************************************************)
TZero == [prefix |-> "T+", num |-> 0]

ControlRecord(h, block_type, operation_type, data_size, file_type, change_type) ==
    [relative_time |-> TZero, transaction_seq |-> h.sequence, block_type |-> block_type,
     fs_block_num |-> U32Zero, operation_type |-> operation_type,
     affected_inode |-> U32Zero, data_size |-> data_size, file_type |-> file_type,
     inode_number |-> U32Zero, link_count |-> 0, filename |-> <<>>,
     parent_dir_inode |-> U32Zero, change_type |-> change_type, full_path |-> <<>>,
     checksum |-> <<>>]

\* trans.checksum = calculateChecksum(block_buffer, BLOCK_SIZE)
Checked(trans, data) == [trans EXCEPT !.checksum = calculateChecksum(data, BLOCK_SIZE)]

\* journal_parser.cpp:225-246, the data record before the block is analysed.
\* operation_type is a default-constructed string until a branch assigns it.
DataRecordDefaults(h, desc) ==
    [relative_time |-> TZero, transaction_seq |-> h.sequence, block_type |-> "data",
     fs_block_num |-> desc.fs_block_num, operation_type |-> "",
     affected_inode |-> U32Zero, data_size |-> BLOCK_SIZE, file_type |-> "unknown",
     inode_number |-> U32Zero, link_count |-> 0, filename |-> <<>>,
     parent_dir_inode |-> U32Zero, change_type |-> "unknown", full_path |-> <<>>,
     checksum |-> <<>>]

METADATA_BLOCK_PREFIX == <<47, 109, 101, 116, 97, 100, 97, 116, 97, 95, 98, 108, 111, 99, 107, 95>>
DATA_BLOCK_PREFIX == <<47, 100, 97, 116, 97, 95, 98, 108, 111, 99, 107, 95>>
UNKNOWN_BLOCK_PREFIX == <<47, 117, 110, 107, 110, 111, 119, 110, 95, 98, 108, 111, 99, 107, 95>>

\* In the loops below the tree after each step is a bound variable, so that
\* it is a value when the next step takes it.
\* JournalParser::updateDirectoryTreeFromInodes, journal_parser.cpp:1181-1185
RECURSIVE updateDirectoryTreeFromInodes(_, _, _, _)
updateDirectoryTreeFromInodes(tree, inodes, inode_numbers, i) ==
    IF i > Len(inodes) \/ i > Len(inode_numbers) THEN tree
    ELSE CHOOSE after \in
             {updateDirectoryTreeFromInodes(informed, inodes, inode_numbers, i + 1) :
                 informed \in {addInodeInfo(tree, inode_numbers[i], inodes[i].mode)}} : TRUE

\* JournalParser::updateDirectoryTree, journal_parser.cpp:1175-1179
RECURSIVE updateDirectoryTree(_, _, _, _)
updateDirectoryTree(tree, entries, parent_inode, i) ==
    IF i > Len(entries) THEN tree
    ELSE CHOOSE after \in
             {updateDirectoryTree(added, entries, parent_inode, i + 1) :
                 added \in {addDirectoryEntry(tree, parent_inode,
                               [inode |-> U32Value(entries[i].inode), name |-> entries[i].name,
                                file_type |-> entries[i].file_type])}} : TRUE

\* buildFullPath of entries i.. in order: the paths and the tree afterwards.
RECURSIVE EntryPaths(_, _, _)
EntryPaths(tree, entries, i) ==
    IF i > Len(entries) THEN [paths |-> <<>>, tree |-> tree]
    ELSE CHOOSE after \in UNION
             {{[paths |-> <<b.path>> \o rest.paths, tree |-> rest.tree] :
                  rest \in {EntryPaths(b.tree, entries, i + 1)}} :
                 b \in {buildFullPath(tree, U32Value(entries[i].inode))}} : TRUE

\* journal_parser.cpp:269-298
InodeTableRecords(data_trans, data, tree) ==
    LET p == parseInodeBlock(data, BLOCK_SIZE)
        first_inode == p.inodes[1]
        base == [data_trans EXCEPT !.operation_type = "inode_update"]
        b == buildFullPath(updateDirectoryTreeFromInodes(tree, p.inodes, p.inode_numbers, 1),
                           p.inode_numbers[1])
    IN  IF p.ok /\ p.inodes # <<>>
        THEN [records |->
                 <<[base EXCEPT !.file_type = getFileTypeString(first_inode.mode),
                                !.inode_number = U32(p.inode_numbers[1]),
                                !.link_count = first_inode.links_count,
                                !.affected_inode = U32(p.inode_numbers[1]),
                                !.full_path = b.path,
                                !.operation_type = IF Len(p.inodes) > 1
                                                   THEN "inode_batch_update"
                                                   ELSE "inode_update"]>>,
              tree |-> b.tree]
        ELSE [records |-> <<base>>, tree |-> tree]

\* journal_parser.cpp:300-347: the records of the second and later entries are
\* pushed before the record of the first entry.
DirectoryRecords(data_trans, data, desc, tree) ==
    LET p == parseDirectoryBlock(data, BLOCK_SIZE)
        dir_entries == p.entries
        base == [data_trans EXCEPT !.operation_type = "directory_update",
                                   !.file_type = "directory"]
        paths == EntryPaths(updateDirectoryTree(tree, dir_entries,
                                                U32Value(desc.fs_block_num), 1),
                            dir_entries, 1)
        filled == [base EXCEPT !.filename = dir_entries[1].name,
                               !.parent_dir_inode = desc.fs_block_num,
                               !.operation_type = inferFileOperation(dir_entries),
                               !.change_type = analyzeDirectoryChanges(dir_entries),
                               !.full_path = paths.paths[1]]
    IN  IF p.ok /\ dir_entries # <<>>
        THEN [records |->
                 [i \in 1..(Len(dir_entries) - 1) |->
                     [filled EXCEPT !.filename = dir_entries[i + 1].name,
                                    !.affected_inode = dir_entries[i + 1].inode,
                                    !.inode_number = dir_entries[i + 1].inode,
                                    !.full_path = paths.paths[i + 1]]]
                 \o <<[filled EXCEPT !.affected_inode = dir_entries[1].inode,
                                     !.inode_number = dir_entries[1].inode]>>,
              tree |-> paths.tree]
        ELSE [records |-> <<base>>, tree |-> tree]

\* journal_parser.cpp:357-389
FileDataRecords(data_trans, data, desc) ==
    LET a == analyzeDataBlockStrings(data, BLOCK_SIZE)
        kind == IF a.total_printable_strings > 0
                THEN IF a.contains_text_files THEN "text_file"
                     ELSE IF a.contains_config_files THEN "config_file"
                     ELSE IF a.contains_log_entries THEN "log_file"
                     ELSE "file_data"
                ELSE "file_data"
    IN  <<[data_trans EXCEPT !.operation_type = kind \o "_update",
                             !.file_type = kind,
                             !.change_type = "data_change",
                             !.full_path = DATA_BLOCK_PREFIX
                                               \o to_string(U32Value(desc.fs_block_num))]>>

(***************************************************************************)
(* journal_parser.cpp:212-405: the records of descriptor entry             *)
(* data_block_index (0-based) at the commit block found at offset.         *)
(***************************************************************************)
DescriptorOffset(offs, descs) == offs - BLOCK_SIZE * (1 + Len(descs))

\* A decoder that counts the data blocks forward from the commit block.
DataBlockOffset_FromCommit(offs, descs, data_block_index) ==
    offs + BLOCK_SIZE * (1 + data_block_index)

DataBlockOffset(offs, descs, data_block_index) ==
    DescriptorOffset(offs, descs) + BLOCK_SIZE * (1 + data_block_index)

DataRead(img, offs, descs, data_block_index) ==
    IF DataBlockOffset(offs, descs, data_block_index)
           < journal_location.offset + journal_location.size
    THEN readBytes(img, partition_offset, DataBlockOffset(offs, descs, data_block_index),
                   BLOCK_SIZE)
    ELSE ReadFailure

EntryRecords(img, h, offs, descs, data_block_index, tree) ==
    LET desc == descs[data_block_index + 1]
        r == DataRead(img, offs, descs, data_block_index)
        data_trans == IF r.ok THEN Checked(DataRecordDefaults(h, desc), r.data)
                      ELSE DataRecordDefaults(h, desc)
        content_type == identifyBlockType(r.data, BLOCK_SIZE)
        block_name == to_string(U32Value(desc.fs_block_num))
        Plain(records) == [records |-> records, tree |-> tree]
    IN  IF r.ok
        THEN CASE content_type = "INODE_TABLE" -> InodeTableRecords(data_trans, r.data, tree)
               [] content_type = "DIRECTORY" ->
                      DirectoryRecords(data_trans, r.data, desc, tree)
               [] content_type = "METADATA" ->
                      Plain(<<[data_trans EXCEPT !.operation_type = "metadata_update",
                                                 !.file_type = "metadata",
                                                 !.change_type = "metadata_change",
                                                 !.full_path = METADATA_BLOCK_PREFIX
                                                                   \o block_name]>>)
               [] content_type = "FILE_DATA" -> Plain(FileDataRecords(data_trans, r.data, desc))
               [] OTHER -> Plain(<<[data_trans EXCEPT
                                       !.operation_type = "filesystem_update",
                                       !.full_path = UNKNOWN_BLOCK_PREFIX \o block_name]>>)
        ELSE Plain(<<[data_trans EXCEPT !.operation_type = "filesystem_update",
                                        !.checksum = <<>>]>>)

\* The records of entries data_block_index.. and the tree after them.
RECURSIVE DataLoop(_, _, _, _, _, _)
DataLoop(img, h, offs, descs, data_block_index, tree) ==
    IF data_block_index >= Len(descs) THEN [records |-> <<>>, tree |-> tree]
    ELSE CHOOSE after \in UNION
             {{[records |-> e.records \o rest.records, tree |-> rest.tree] :
                  rest \in {DataLoop(img, h, offs, descs, data_block_index + 1, e.tree)}} :
                 e \in {EntryRecords(img, h, offs, descs, data_block_index, tree)}} : TRUE

DataRecords(img, h, offs, descs, tree) == DataLoop(img, h, offs, descs, 0, tree)

(***************************************************************************)
(* Initial states: a reader whose journal has been located (found) or not, *)
(* about to run parseJournal.  journal_location.size is positive (the      *)
(* branch that sizes the journal from its superblock is not taken).        *)
(***************************************************************************)
(***************************************************************************)
(* JournalParser::performForensicAnalysis and detectJournalMode.  The      *)
(* fields drawn from file_path and file_size (journal_type, the string     *)
(* counters) and those of analyzeTransactionPatterns are left out.         *)
(***************************************************************************)
\* ForensicAnalysis::ForensicAnalysis
ForensicAnalysis ==
    [detected_mode |-> "UNKNOWN", total_transactions |-> 0,
     sequence_range_start |-> U32Zero, sequence_range_end |-> U32Zero,
     descriptor_blocks |-> 0, commit_blocks |-> 0, revocation_blocks |-> 0,
     data_blocks_found |-> 0, transaction_gaps |-> U32Zero,
     potential_data_recovery |-> FALSE, metadata_only_mode |-> FALSE,
     filesystem_blocks_modified |-> 0]

CountWhere(trs, Test(_)) == Cardinality({k \in 1..Len(trs) : Test(trs[k])})
IsDescriptor(trans) == trans.block_type = "descriptor"
IsData(trans) == trans.block_type = "data"

\* operation_type.find("inode"), find("directory") or find("metadata") finds
\* the word: the operation types that hold one of the three.
MetadataIndicator(trans) ==
    trans.operation_type \in {"inode_update", "inode_batch_update", "directory_update",
                              "directory_created", "metadata_update"}

\* A detector without the first rule.
detectJournalMode_NoFirstRule(trs) ==
    IF 2 * CountWhere(trs, IsData) > CountWhere(trs, IsDescriptor)
    THEN "JOURNAL_MODE" ELSE "UNKNOWN"

\* data_count > descriptor_count * 0.5 is 2 * data_count > descriptor_count,
\* metadata_indicators > descriptor_count * 0.8 is 5 * indicators > 4 *
\* descriptor_count (exact for the counts of a journal of a few blocks).
detectJournalMode(trs) ==
    LET descriptor_count == CountWhere(trs, IsDescriptor)
        data_count == CountWhere(trs, IsData)
        metadata_indicators == CountWhere(trs, MetadataIndicator)
    IN  IF data_count = 0 /\ descriptor_count > 0 THEN "ORDERED_MODE"
        ELSE IF 2 * data_count > descriptor_count THEN "JOURNAL_MODE"
        ELSE IF descriptor_count > 0 /\ 5 * metadata_indicators > 4 * descriptor_count
             THEN "ORDERED_MODE"
        ELSE "UNKNOWN"

\* The sequence numbers above 0 of the records, their minimum and maximum
\* (UINT32_MAX and 0 when there is none).
UINT32_MAX == <<255, 255, 255, 255>>
SequencesFound(trs) == {trs[k].transaction_seq : k \in 1..Len(trs)} \ {U32Zero}
min_seq(trs) ==
    IF SequencesFound(trs) = {} THEN UINT32_MAX
    ELSE CHOOSE s \in SequencesFound(trs) : \A t \in SequencesFound(trs) : U32Le(s, t)
max_seq(trs) ==
    IF SequencesFound(trs) = {} THEN U32Zero
    ELSE CHOOSE s \in SequencesFound(trs) : \A t \in SequencesFound(trs) : U32Le(t, s)

\* for (uint32_t seq = min_seq; seq <= max_seq; seq++): the loop is left when
\* seq passes max_seq, which no uint32_t does when max_seq is UINT32_MAX
\* (seq++ wraps to 0).
GapLoopEnds(trs) == max_seq(trs) # UINT32_MAX

\* The sequence numbers of min_seq..max_seq that no record carries: all of
\* the range but the sequence numbers found.
TransactionGaps(trs) ==
    IF SequencesFound(trs) = {} \/ ~GapLoopEnds(trs) THEN U32Zero
    ELSE U32Sub(U32Sub(max_seq(trs), min_seq(trs)),
                U32(Cardinality(SequencesFound(trs)) - 1))

\* How the gap loop ends.  With max_seq = UINT32_MAX the loop has no exit
\* and does no input or output, which the language leaves undefined: the
\* build either runs it for ever or, taking it to end, leaves the loop with
\* a count of its own.
GapLoopOutcomes(trs) ==
    IF GapLoopEnds(trs)
    THEN {[ends |-> TRUE, transaction_gaps |-> TransactionGaps(trs)]}
    ELSE {[ends |-> FALSE, transaction_gaps |-> U32Zero]}
             \cup {[ends |-> TRUE, transaction_gaps |-> gaps] : gaps \in {U32Zero, UINT32_MAX}}

performForensicAnalysis(trs) ==
    [detected_mode |-> detectJournalMode(trs),
     total_transactions |-> Len(trs),
     sequence_range_start |-> IF min_seq(trs) = UINT32_MAX THEN U32Zero ELSE min_seq(trs),
     sequence_range_end |-> max_seq(trs),
     descriptor_blocks |-> CountWhere(trs, IsDescriptor),
     commit_blocks |-> CountWhere(trs, LAMBDA t : t.block_type = "commit"),
     revocation_blocks |-> CountWhere(trs, LAMBDA t : t.block_type = "revocation"),
     data_blocks_found |-> CountWhere(trs, IsData),
     transaction_gaps |-> TransactionGaps(trs),
     potential_data_recovery |-> CountWhere(trs, IsData) > 0,
     metadata_only_mode |-> CountWhere(trs, IsData) = 0,
     filesystem_blocks_modified |->
         Cardinality({trs[k].fs_block_num : k \in 1..Len(trs)} \ {U32Zero})]

NoHeader == [ok |-> FALSE, magic |-> U32Zero, block_type |-> U32Zero, sequence |-> U32Zero]

HistInit == [pending |-> FALSE, desc_block_offset |-> 0, desc_sequence |-> U32Zero,
             opened |-> 0, closed |-> 0, closes |-> <<>>, reads |-> <<>>,
             last_path |-> <<>>]

Init ==
    /\ partition_offset = 0
    /\ \E o \in JournalOffsets, size \in JournalSizes, found \in BOOLEAN :
           /\ journal_location = [offset |-> o, size |-> size, found |-> found]
           /\ image = SubSeq(PreJournalBlocks, 1, o \div BLOCK_SIZE)
    /\ \E f \in Filters : start_seq = f[1] /\ end_seq = f[2]
    /\ pc = "start"
    /\ offset = 0
    /\ block_buffer = <<>>
    /\ header = NoHeader
    /\ current_transaction_seq = U32Zero
    /\ current_descriptors = <<>>
    /\ transactions = <<>>
    /\ hist = HistInit
    /\ directory_tree = TreeInit
    /\ forensic_analysis = ForensicAnalysis

(***************************************************************************)
(* parseJournal, journal_parser.cpp:40-77: entry.                          *)
(***************************************************************************)
NotLocated ==
    /\ pc = "start"
    /\ ~journal_location.found
    /\ pc' = "done"
    /\ UNCHANGED <<forensic_analysis, directory_tree, image, partition_offset, journal_location, start_seq, end_seq, offset,
                   block_buffer, header, current_transaction_seq, current_descriptors,
                   transactions, hist>>

BeginScan ==
    /\ pc = "start"
    /\ journal_location.found
    /\ journal_location.size > 0
    /\ pc' = "scan"
    /\ offset' = journal_location.offset
    /\ UNCHANGED <<forensic_analysis, directory_tree, image, partition_offset, journal_location, start_seq, end_seq,
                   block_buffer, header, current_transaction_seq, current_descriptors,
                   transactions, hist>>

(***************************************************************************)
(* One iteration of the block loop, journal_parser.cpp:77-473.  The block  *)
(* at offset is drawn when the scan reaches it.                            *)
(***************************************************************************)
InLoop == pc = "scan" /\ offset < journal_location.offset + journal_location.size

\* The image once the block at offset is known: blk is drawn for it unless the
\* image holds that block already.
NextImage(blk) ==
    IF offset + partition_offset < Len(image) * BLOCK_SIZE THEN image ELSE Append(image, blk)
ScanRead(blk) == readBytes(NextImage(blk), partition_offset, offset, BLOCK_SIZE)
ScanHeader(blk) == parseJournalHeader(ScanRead(blk).data)

BelowStart(h) == start_seq >= 0 /\ AsInt32(h.sequence) < start_seq
AboveEnd(h) == end_seq >= 0 /\ AsInt32(h.sequence) > end_seq

\* The block is read, its header is valid and passes the sequence filter.
Dispatched(blk) ==
    /\ InLoop
    /\ ScanRead(blk).ok
    /\ ScanHeader(blk).ok
    /\ ~BelowStart(ScanHeader(blk))
    /\ ~AboveEnd(ScanHeader(blk))

LogRead(h, addr) ==
    [h EXCEPT !.reads = Append(@, [offset |-> addr, size |-> BLOCK_SIZE, kind |-> "scan"])]

\* What every iteration that reads its block does.
Fetched(blk) ==
    /\ image' = NextImage(blk)
    /\ block_buffer' = ScanRead(blk).data
    /\ UNCHANGED <<partition_offset, journal_location, start_seq, end_seq>>

ReadFailed ==
    \E blk \in JournalBlocks :
        /\ InLoop
        /\ ~ScanRead(blk).ok
        /\ image' = NextImage(blk)
        /\ offset' = offset + BLOCK_SIZE
        /\ hist' = LogRead(hist, offset)
        /\ UNCHANGED <<forensic_analysis, directory_tree, partition_offset, journal_location, start_seq, end_seq, pc,
                       block_buffer, header, current_transaction_seq, current_descriptors,
                       transactions>>

InvalidHeader ==
    \E blk \in JournalBlocks :
        /\ InLoop
        /\ ScanRead(blk).ok
        /\ ~ScanHeader(blk).ok
        /\ Fetched(blk)
        /\ header' = ScanHeader(blk)
        /\ offset' = offset + BLOCK_SIZE
        /\ hist' = LogRead(hist, offset)
        /\ UNCHANGED <<forensic_analysis, directory_tree, pc, current_transaction_seq, current_descriptors, transactions>>

SkipBelowStart ==
    \E blk \in JournalBlocks :
        /\ InLoop
        /\ ScanRead(blk).ok
        /\ ScanHeader(blk).ok
        /\ BelowStart(ScanHeader(blk))
        /\ Fetched(blk)
        /\ header' = ScanHeader(blk)
        /\ offset' = offset + BLOCK_SIZE
        /\ hist' = LogRead(hist, offset)
        /\ UNCHANGED <<forensic_analysis, directory_tree, pc, current_transaction_seq, current_descriptors, transactions>>

\* break: the loop is left without advancing offset.
HaltAboveEnd ==
    \E blk \in JournalBlocks :
        /\ InLoop
        /\ ScanRead(blk).ok
        /\ ScanHeader(blk).ok
        /\ ~BelowStart(ScanHeader(blk))
        /\ AboveEnd(ScanHeader(blk))
        /\ Fetched(blk)
        /\ header' = ScanHeader(blk)
        /\ pc' = "post"
        /\ hist' = LogRead(hist, offset)
        /\ UNCHANGED <<forensic_analysis, directory_tree, offset, current_transaction_seq, current_descriptors, transactions>>

\* A descriptor case that adds the entries to the pending ones.
DescriptorCase_KeepPending(blk) ==
    LET h == ScanHeader(blk)
        descs == current_descriptors
                     \o parseDescriptorBlock(Skip(ScanRead(blk).data, JOURNAL_HEADER_SIZE),
                                             BLOCK_SIZE - JOURNAL_HEADER_SIZE)
    IN  /\ current_transaction_seq' = h.sequence
        /\ current_descriptors' = descs
        /\ transactions' = Append(transactions,
               Checked(ControlRecord(h, "descriptor", "transaction_start", Len(descs) * 8,
                                     "transaction", "transaction_start"),
                       ScanRead(blk).data))
        /\ hist' = [LogRead(hist, offset) EXCEPT !.pending = TRUE,
                                                 !.desc_block_offset = offset,
                                                 !.desc_sequence = h.sequence,
                                                 !.opened = @ + 1]

\* case JournalBlockType::DESCRIPTOR
DescriptorCase(blk) ==
    LET h == ScanHeader(blk)
        descs == parseDescriptorBlock(Skip(ScanRead(blk).data, JOURNAL_HEADER_SIZE),
                                      BLOCK_SIZE - JOURNAL_HEADER_SIZE)
    IN  /\ current_transaction_seq' = h.sequence
        /\ current_descriptors' = descs
        /\ transactions' = Append(transactions,
               Checked(ControlRecord(h, "descriptor", "transaction_start", Len(descs) * 8,
                                     "transaction", "transaction_start"),
                       ScanRead(blk).data))
        /\ hist' = [LogRead(hist, offset) EXCEPT !.pending = TRUE,
                                                 !.desc_block_offset = offset,
                                                 !.desc_sequence = h.sequence,
                                                 !.opened = @ + 1]

ScanDescriptor ==
    \E blk \in JournalBlocks :
        /\ Dispatched(blk)
        /\ ScanHeader(blk).block_type = DESCRIPTOR
        /\ Fetched(blk)
        /\ header' = ScanHeader(blk)
        /\ offset' = offset + BLOCK_SIZE
        /\ DescriptorCase(blk)
        /\ UNCHANGED <<pc, directory_tree, forensic_analysis>>

\* parseCommitBlock(block_buffer + 12, 4084, commit_seq): always succeeds for
\* a 4084-byte body; commit_seq is not used by the caller.
parseCommitBlock(data, size) ==
    [ok |-> size >= 4, sequence |-> Load32(data, 0)]

\* case JournalBlockType::COMMIT
CommitCase(blk) ==
    LET h == ScanHeader(blk)
        img == NextImage(blk)
        c == parseCommitBlock(Skip(ScanRead(blk).data, JOURNAL_HEADER_SIZE),
                              BLOCK_SIZE - JOURNAL_HEADER_SIZE)
        trans == Checked(ControlRecord(h, "commit", "transaction_end", 0,
                                       "transaction", "transaction_end"),
                         ScanRead(blk).data)
        n == Len(current_descriptors)
        data_offsets == [k \in 1..n |-> DataBlockOffset(offset, current_descriptors, k - 1)]
        \* the data reads issued: those below the end of the journal
        logged == [LogRead(hist, offset) EXCEPT
                      !.reads = @ \o SelectSeq(
                          [k \in 1..n |-> [offset |-> data_offsets[k], size |-> BLOCK_SIZE,
                                           kind |-> "data"]],
                          LAMBDA r : r.offset < journal_location.offset
                                                    + journal_location.size)]
    IN  IF c.ok
        THEN /\ \E data \in {DataRecords(img, h, offset, current_descriptors, directory_tree)} :
                    /\ transactions' = (Append(transactions, trans) \o data.records)
                    /\ directory_tree' = data.tree
             /\ current_descriptors' = <<>>
             /\ hist' = IF hist.pending
                        THEN [logged EXCEPT
                                 !.pending = FALSE,
                                 !.closed = @ + 1,
                                 !.closes = Append(@,
                                     [commit_offset |-> offset,
                                      commit_sequence |-> h.sequence,
                                      desc_block_offset |-> hist.desc_block_offset,
                                      desc_sequence |-> hist.desc_sequence,
                                      data_offsets |-> data_offsets,
                                      first_record |-> Len(transactions) + 2])]
                        ELSE logged
        ELSE /\ hist' = LogRead(hist, offset)
             /\ UNCHANGED <<transactions, current_descriptors, directory_tree>>

ScanCommit ==
    \E blk \in JournalBlocks :
        /\ Dispatched(blk)
        /\ ScanHeader(blk).block_type = COMMIT
        /\ Fetched(blk)
        /\ header' = ScanHeader(blk)
        /\ offset' = offset + BLOCK_SIZE
        /\ CommitCase(blk)
        /\ UNCHANGED <<pc, current_transaction_seq, forensic_analysis>>

\* A revocation case that drops the pending batch.
ScanRevocation_DropsBatch ==
    \E blk \in JournalBlocks :
        /\ Dispatched(blk)
        /\ ScanHeader(blk).block_type = REVOCATION
        /\ Fetched(blk)
        /\ header' = ScanHeader(blk)
        /\ offset' = offset + BLOCK_SIZE
        /\ transactions' = Append(transactions,
               Checked(ControlRecord(ScanHeader(blk), "revocation", "block_revocation",
                                     BLOCK_SIZE - JOURNAL_HEADER_SIZE, "revocation",
                                     "block_revocation"),
                       ScanRead(blk).data))
        /\ hist' = LogRead(hist, offset)
        /\ current_descriptors' = <<>>
        /\ UNCHANGED <<forensic_analysis, directory_tree, pc, current_transaction_seq>>

\* case JournalBlockType::REVOCATION
ScanRevocation ==
    \E blk \in JournalBlocks :
        /\ Dispatched(blk)
        /\ ScanHeader(blk).block_type = REVOCATION
        /\ Fetched(blk)
        /\ header' = ScanHeader(blk)
        /\ offset' = offset + BLOCK_SIZE
        /\ transactions' = Append(transactions,
               Checked(ControlRecord(ScanHeader(blk), "revocation", "block_revocation",
                                     BLOCK_SIZE - JOURNAL_HEADER_SIZE, "revocation",
                                     "block_revocation"),
                       ScanRead(blk).data))
        /\ hist' = LogRead(hist, offset)
        /\ UNCHANGED <<forensic_analysis, directory_tree, pc, current_transaction_seq, current_descriptors>>

\* case JournalBlockType::SUPERBLOCK_V1, SUPERBLOCK_V2
ScanSuperblock ==
    \E blk \in JournalBlocks :
        /\ Dispatched(blk)
        /\ ScanHeader(blk).block_type \in {SUPERBLOCK_V1, SUPERBLOCK_V2}
        /\ Fetched(blk)
        /\ header' = ScanHeader(blk)
        /\ offset' = offset + BLOCK_SIZE
        /\ transactions' = Append(transactions,
               [Checked(ControlRecord(ScanHeader(blk), "superblock", "journal_superblock",
                                      BLOCK_SIZE - JOURNAL_HEADER_SIZE, "superblock",
                                      "journal_init"),
                        ScanRead(blk).data)
                   EXCEPT !.full_path = SLASH])
        /\ hist' = LogRead(hist, offset)
        /\ UNCHANGED <<forensic_analysis, directory_tree, pc, current_transaction_seq, current_descriptors>>

\* The switch has no default: a block of any other type emits nothing.
ScanOtherType ==
    \E blk \in JournalBlocks :
        /\ Dispatched(blk)
        /\ ScanHeader(blk).block_type
               \notin {DESCRIPTOR, COMMIT, REVOCATION, SUPERBLOCK_V1, SUPERBLOCK_V2}
        /\ Fetched(blk)
        /\ header' = ScanHeader(blk)
        /\ offset' = offset + BLOCK_SIZE
        /\ hist' = LogRead(hist, offset)
        /\ UNCHANGED <<forensic_analysis, directory_tree, pc, current_transaction_seq, current_descriptors, transactions>>

(***************************************************************************)
(* journal_parser.cpp:480-496: after the loop, the relative timestamps.    *)
(***************************************************************************)
BaseSequence(trs) == trs[1].transaction_seq

Retimed(trs, folded) ==
    [k \in 1..Len(trs) |->
        [trs[k] EXCEPT !.relative_time =
            generateRelativeTimestamp(trs[k].transaction_seq, BaseSequence(trs), folded)]]

\* if (!transactions.empty()): the relative timestamps, then the roll-up,
\* whose last loop ends as GapLoopOutcomes says; pc = "gap_loop" is the call
\* that never leaves that loop.
Finish ==
    /\ pc = "post" \/ (pc = "scan" /\ ~InLoop)
    /\ \E folded \in BOOLEAN :
           \E trs \in {IF transactions # <<>> THEN Retimed(transactions, folded)
                                              ELSE transactions} :
               /\ transactions' = trs
               /\ IF trs = <<>>
                  THEN pc' = "done" /\ UNCHANGED forensic_analysis
                  ELSE \E outcome \in GapLoopOutcomes(trs) :
                           /\ forensic_analysis' =
                                  [performForensicAnalysis(trs) EXCEPT
                                      !.transaction_gaps = outcome.transaction_gaps]
                           /\ pc' = IF outcome.ends THEN "done" ELSE "gap_loop"
    /\ UNCHANGED <<directory_tree, image, partition_offset, journal_location, start_seq, end_seq, offset,
                   block_buffer, header, current_transaction_seq, current_descriptors, hist>>

Next ==
    \/ NotLocated
    \/ BeginScan
    \/ ReadFailed
    \/ InvalidHeader
    \/ SkipBelowStart
    \/ HaltAboveEnd
    \/ ScanDescriptor
    \/ ScanCommit
    \/ ScanRevocation
    \/ ScanSuperblock
    \/ ScanOtherType
    \/ Finish

Spec == Init /\ [][Next]_vars

(***************************************************************************)
(* Properties of the block scan (specification Spec).                      *)
(***************************************************************************)
\* The blocks of the journal scanned so far.
JournalPrefix ==
    SubSeq(image, (journal_location.offset + partition_offset) \div BLOCK_SIZE + 1, Len(image))

CountRecords(block_type) ==
    Cardinality({k \in 1..Len(transactions) : transactions[k].block_type = block_type})

\* C1: for every commit that closes a pending descriptor batch, the data block
\* of descriptor entry i is read at descriptor_block_offset + (1 + i) * 4096,
\* where descriptor_block_offset is the address of the descriptor block that
\* opened the batch, whatever the address of the commit block.
C1_DataBlockAddress ==
    \A c \in 1..Len(hist.closes) :
        \A k \in 1..Len(hist.closes[c].data_offsets) :
            hist.closes[c].data_offsets[k]
                = hist.closes[c].desc_block_offset + (1 + (k - 1)) * BLOCK_SIZE

\* C2: a commit block closes the pending descriptor batch only when its
\* sequence number equals the sequence number of the descriptor that opened
\* the batch.
C2_CommitMatchesDescriptor ==
    \A c \in 1..Len(hist.closes) :
        hist.closes[c].commit_sequence = hist.closes[c].desc_sequence

\* C3: after the scan, the number of commit records equals the number of
\* closed transactions and the number of descriptor records equals the number
\* of opened transactions.
C3_RecordCounts ==
    pc = "done" =>
        /\ CountRecords("commit") = hist.closed
        /\ CountRecords("descriptor") = hist.opened

\* The smallest sequence number among the records.
MinSequence(trs) ==
    CHOOSE m \in {trs[k].transaction_seq : k \in 1..Len(trs)} :
        \A k \in 1..Len(trs) : U32Le(m, trs[k].transaction_seq)

\* relative_time is the text "T+" followed by the decimal text of d.
IsTPlus(relative_time, d) ==
    relative_time.prefix = "T+" /\ d[1] < 128 /\ relative_time.num = AsInt32(d)

\* C4: after the scan, every record's relative_time is "T+" followed by its
\* sequence minus the smallest sequence observed in the run.
C4_RelativeTime ==
    pc = "done" =>
        \A k \in 1..Len(transactions) :
            IsTPlus(transactions[k].relative_time,
                    U32Sub(transactions[k].transaction_seq, MinSequence(transactions)))

\* A tag the descriptor format accepts.
WellFormedTag(tag) ==
    /\ tag[1] # U32Zero
    /\ U32Lt(tag[1], <<\H7F, \HFF, \HFF, \HFF>>)
    /\ U32Le(tag[2], U32(255))

\* The journal is a descriptor block (sequence s, well-formed tags), one data
\* block per tag and a commit block of sequence s, scanned without a filter.
MinimalJournal(s, tags) ==
    /\ start_seq < 0 /\ end_seq < 0
    /\ journal_location.found
    /\ journal_location.size = (Len(tags) + 2) * BLOCK_SIZE
    /\ Len(JournalPrefix) = Len(tags) + 2
    /\ \A k \in 1..Len(tags) : WellFormedTag(tags[k])
    /\ JournalPrefix[1] = DescriptorBlock(s, tags)
    /\ \A k \in 1..Len(tags) : JournalPrefix[k + 1] \in DataBlocks
    /\ JournalPrefix[Len(tags) + 2] = ControlBlock(COMMIT, s)

\* seq without the repetitions of an element next to itself.
RECURSIVE Collapse(_)
Collapse(seq) ==
    IF Len(seq) <= 1 THEN seq
    ELSE IF seq[1] = seq[2] THEN Collapse(Tail(seq))
    ELSE <<seq[1]>> \o Collapse(Tail(seq))

RecordsOfBlock(fs_block_num) ==
    SelectSeq(transactions, LAMBDA r : r.block_type = "data" /\ r.fs_block_num = fs_block_num)

C6_RecordsInRange ==
    \A k \in 1..Len(transactions) :
        /\ start_seq >= 0 => U32Le(U32(start_seq), transactions[k].transaction_seq)
        /\ end_seq >= 0 => U32Le(transactions[k].transaction_seq, U32(end_seq))

(***************************************************************************)
(* ImageHandler: locating the journal, image_handler.cpp:123-378.          *)
(***************************************************************************)
validateJournalMagic(img, part_offset, offs) ==
    LET r == readBytes(img, part_offset, offs, JOURNAL_HEADER_SIZE)
        magic == Load32(r.data, 0)
        jbd2_magic == <<\H98, \H39, \HB3, \HC0>>
        jbd_magic == <<\H98, \H39, \H3B, \HC0>>
        reversed_magic == <<\HC0, \H3B, \H39, \H98>>
        is_jbd2 == magic = jbd2_magic
        is_jbd == magic = jbd_magic
    IN  IF ~r.ok THEN FALSE
        ELSE IF ~is_jbd2 /\ ~is_jbd /\ magic = reversed_magic THEN TRUE
        ELSE is_jbd2 \/ is_jbd

isJournalFound == journal_location.found

\* locateJournal with manual_offset >= 0; pc records what the call returned.
LocateManual(manual_offset, manual_size) ==
    /\ manual_offset >= 0
    /\ LET found == validateJournalMagic(image, partition_offset, manual_offset)
       IN  /\ journal_location' = [offset |-> manual_offset,
                                   size |-> IF manual_size > 0 THEN manual_size ELSE 0,
                                   found |-> found]
           /\ pc' = IF found THEN "located" ELSE "not_located"
    /\ UNCHANGED <<forensic_analysis, directory_tree, image, partition_offset, start_seq, end_seq, offset, block_buffer, header,
                   current_transaction_seq, current_descriptors, transactions, hist>>

(***************************************************************************)
(* Specification SpecHeader: one block whose first 12 bytes are            *)
(* [big32(M), big32(T), big32(S)] is checked by the locator and decoded by *)
(* the parser.                                                             *)
(***************************************************************************)
HeaderMagics ==
    {JOURNAL_MAGIC, <<\HC0, \HB3, \H39, \H98>>, <<\H98, \H39, \H3B, \HC0>>,
     <<\H98, \H39, \HB3, \HC0>>, <<\HC0, \H3B, \H39, \H99>>, U32Zero}
HeaderTypes == {DESCRIPTOR, COMMIT, REVOCATION, U32(9), <<1, 0, 0, 0>>}
HeaderSequences == SeqVals \cup {<<1, 2, 3, 4>>, <<\HFF, \HFF, \HFF, \HFF>>}

InitHeader ==
    /\ \E M \in HeaderMagics, T \in HeaderTypes, S \in HeaderSequences :
           image = <<Readable(HeaderBytes(M, T, S))>>
    /\ partition_offset = 0
    /\ journal_location = [offset |-> 0, size |-> 0, found |-> FALSE]
    /\ start_seq = -1 /\ end_seq = -1
    /\ pc = "header"
    /\ offset = 0
    /\ block_buffer = <<>>
    /\ header = NoHeader
    /\ current_transaction_seq = U32Zero
    /\ current_descriptors = <<>>
    /\ transactions = <<>>
    /\ hist = HistInit
    /\ directory_tree = TreeInit
    /\ forensic_analysis = ForensicAnalysis

HeaderLocate ==
    /\ pc = "header"
    /\ LocateManual(0, BLOCK_SIZE)

\* The first iteration of the block loop up to the header parse,
\* journal_parser.cpp:77-88.
HeaderParse ==
    /\ pc \in {"located", "not_located"}
    /\ LET r == readBytes(image, partition_offset, journal_location.offset, BLOCK_SIZE)
       IN  /\ r.ok
           /\ block_buffer' = r.data
           /\ header' = parseJournalHeader(r.data)
    /\ pc' = "parsed"
    /\ UNCHANGED <<forensic_analysis, directory_tree, image, partition_offset, journal_location, start_seq, end_seq, offset,
                   current_transaction_seq, current_descriptors, transactions, hist>>

NextHeader == HeaderLocate \/ HeaderParse

SpecHeader == InitHeader /\ [][NextHeader]_vars

\* C7: for all M, T, S, parsing the 12 bytes [big32(M), big32(T), big32(S)]
\* succeeds if and only if M is the journal magic 0xC03B3998, and on success
\* the decoded header is {magic = M, block_type = T, sequence = S}.
C7_HeaderRoundTrip ==
    pc = "parsed" =>
        LET M == SubSeq(image[1].data, 1, 4)
            T == SubSeq(image[1].data, 5, 8)
            S == SubSeq(image[1].data, 9, 12)
        IN  /\ header.ok <=> M = JOURNAL_MAGIC
            /\ header.ok =>
                   (header.magic = M /\ header.block_type = T /\ header.sequence = S)

\* C9: whenever the journal location is valid, the block at its offset is
\* accepted by the decoder's header parse: every header the locator's magic
\* check accepts, parseJournalHeader accepts too.
C9_LocatedHeaderParses ==
    (pc = "parsed" /\ isJournalFound) => header.ok

(***************************************************************************)
(* Specification SpecDescriptor: parseDescriptorBlock applied, as the      *)
(* DESCRIPTOR case of parseJournal applies it (journal_parser.cpp:133-135),*)
(* to a descriptor block holding a bounded list of tags.                   *)
(***************************************************************************)
MaxTags == 3

ZeroTag == <<U32Zero, U32Zero>>
TagAlphabet ==
    {GoodTag42, GoodTag7, ZeroTag, BadTag,
     <<<<\H7F, \HFF, \HFF, \HFF>>, U32Zero>>, <<U32(5), U32(256)>>}

RECURSIVE TagListsUpTo(_)
TagListsUpTo(n) ==
    IF n = 0 THEN {<<>>}
    ELSE LET shorter == TagListsUpTo(n - 1)
         IN  shorter \cup {Append(l, t) : l \in {x \in shorter : Len(x) = n - 1},
                                           t \in TagAlphabet}

InitDescriptor ==
    /\ \E tags \in TagListsUpTo(MaxTags) : image = <<DescriptorBlock(U32(1), tags)>>
    /\ partition_offset = 0
    /\ journal_location = [offset |-> 0, size |-> BLOCK_SIZE, found |-> TRUE]
    /\ start_seq = -1 /\ end_seq = -1
    /\ pc = "descriptor"
    /\ offset = 0
    /\ block_buffer = <<>>
    /\ header = NoHeader
    /\ current_transaction_seq = U32Zero
    /\ current_descriptors = <<>>
    /\ transactions = <<>>
    /\ hist = HistInit
    /\ directory_tree = TreeInit
    /\ forensic_analysis = ForensicAnalysis

DescriptorParse ==
    /\ pc = "descriptor"
    /\ LET r == readBytes(image, partition_offset, offset, BLOCK_SIZE)
       IN  /\ r.ok
           /\ block_buffer' = r.data
           /\ header' = parseJournalHeader(r.data)
           /\ current_transaction_seq' = parseJournalHeader(r.data).sequence
           /\ current_descriptors' =
                  parseDescriptorBlock(Skip(r.data, JOURNAL_HEADER_SIZE),
                                       BLOCK_SIZE - JOURNAL_HEADER_SIZE)
    /\ pc' = "tags_parsed"
    /\ UNCHANGED <<forensic_analysis, directory_tree, image, partition_offset, journal_location, start_seq, end_seq, offset,
                   transactions, hist>>

NextDescriptor == DescriptorParse

SpecDescriptor == InitDescriptor /\ [][NextDescriptor]_vars

\* The tags stored after the header of a block, in on-disk order.
TagsOnDisk(data) ==
    [k \in 1..((Len(data) - JOURNAL_HEADER_SIZE) \div 8) |->
        <<SubSeq(data, JOURNAL_HEADER_SIZE + 8 * (k - 1) + 1, JOURNAL_HEADER_SIZE + 8 * (k - 1) + 4),
          SubSeq(data, JOURNAL_HEADER_SIZE + 8 * (k - 1) + 5, JOURNAL_HEADER_SIZE + 8 * (k - 1) + 8)>>]

RECURSIVE BeforeFirstZero(_)
BeforeFirstZero(tags) ==
    IF tags = <<>> \/ Head(tags) = ZeroTag THEN <<>>
    ELSE <<Head(tags)>> \o BeforeFirstZero(Tail(tags))

ExpectedEntries(tags) ==
    LET kept == SelectSeq(BeforeFirstZero(tags), WellFormedTag)
    IN  [k \in 1..Len(kept) |-> [fs_block_num |-> kept[k][1], flags |-> kept[k][2]]]

\* C8: parseDescriptorBlock returns, in on-disk order, exactly the tags that
\* precede the first {0, 0} tag and satisfy 0 < fs_block_num < 0x7FFFFFFF and
\* flags <= 0xFF; no tag after a {0, 0} tag is returned.
C8_DescriptorTags ==
    pc = "tags_parsed" =>
        current_descriptors = ExpectedEntries(TagsOnDisk(image[1].data))

\* C8 witness: an accepted tag, a {0, 0} tag and an accepted tag after it
\* were parsed, and only the first was returned.
C8_Witness ==
    /\ pc = "tags_parsed"
    /\ image[1] = DescriptorBlock(U32(1), <<GoodTag42, ZeroTag, GoodTag7>>)
    /\ current_descriptors = <<[fs_block_num |-> U32(42), flags |-> U32Zero]>>

(***************************************************************************)
(* ImageHandler::findJournalInSuperblock, image_handler.cpp:138-342.       *)
(*                                                                         *)
(* The superblock fields are read in place on the little-endian host.  The *)
(* images of this model keep every field below 2^31 and the inode size at  *)
(* most 256, the size of the journal_inode buffer.                         *)
(***************************************************************************)
\* x & (1 << bit) != 0 for a byte x.
BitSet(x, bit) == (x \div (2 ^ bit)) % 2 = 1

NotFound == [ok |-> FALSE, offset |-> 0, size |-> 0]

RECURSIVE SearchLoop(_, _, _, _)
SearchLoop(img, part_offset, search_offsets, i) ==
    IF i > Len(search_offsets) \/ search_offsets[i] = 0 THEN NotFound
    ELSE IF validateJournalMagic(img, part_offset, search_offsets[i])
    THEN [ok |-> TRUE, offset |-> search_offsets[i], size |-> 0]
    ELSE SearchLoop(img, part_offset, search_offsets, i + 1)

JournalInodeBlock(journal_inode) ==
    LET uses_extents == BitSet(ByteAt(journal_inode, 34), 3)
        extent_magic == Load16(journal_inode, 40)
        extent_entries == Load16(journal_inode, 42)
    IN  IF uses_extents
        THEN IF extent_magic = 62218 /\ extent_entries > 0
             THEN [ok |-> TRUE, journal_block |-> U32Value(Load32(journal_inode, 60))]
             ELSE [ok |-> FALSE, journal_block |-> 0]
        ELSE [ok |-> TRUE, journal_block |-> U32Value(Load32(journal_inode, 40))]

findJournalInSuperblock(img, part_offset) ==
    LET sb == readBytes(img, part_offset, 1024, 1024)
        superblock == sb.data
        block_size == 1024 * 2 ^ U32Value(Load32(superblock, 24))
        has_journal == BitSet(ByteAt(superblock, 92), 2)
        is_journal_dev == BitSet(ByteAt(superblock, 96), 3)
        group_desc_offset == (U32Value(Load32(superblock, 20)) + 1) * block_size
        gd == readBytes(img, part_offset, group_desc_offset, 32)
        inode_table_offset == U32Value(Load32(gd.data, 8)) * block_size
        inode_size == Load16(superblock, 88)
        actual_inode_size == IF inode_size > 0 THEN inode_size ELSE EXT4_INODE_SIZE
        journal_inode_offset == inode_table_offset + (8 - 1) * actual_inode_size
        ji == readBytes(img, part_offset, journal_inode_offset, actual_inode_size)
        journal_size == U32Value(Load32(ji.data, 4))
        jb == JournalInodeBlock(ji.data)
        journal_offset == jb.journal_block * block_size
        search_offsets == <<32768, 65536, 131072, 262144, 524288, 1048576,
                            block_size * 10, block_size * 100, 0>>
    IN  IF ~sb.ok THEN NotFound
        ELSE IF Load16(superblock, 56) # 61267 THEN NotFound
        ELSE IF ~has_journal /\ ~is_journal_dev THEN NotFound
        ELSE IF ~gd.ok THEN NotFound
        ELSE IF ~ji.ok THEN NotFound
        ELSE IF ~jb.ok THEN NotFound
        ELSE IF jb.journal_block = 0 THEN NotFound
        ELSE IF validateJournalMagic(img, part_offset, journal_offset)
        THEN [ok |-> TRUE, offset |-> journal_offset, size |-> journal_size]
        ELSE SearchLoop(img, part_offset, search_offsets, 1)

\* locateJournal with manual_offset < 0: a failing search returns without
\* writing journal_location.
LocateAuto(manual_offset) ==
    /\ manual_offset < 0
    /\ LET r == findJournalInSuperblock(image, partition_offset)
       IN  /\ journal_location' =
                  IF r.ok THEN [offset |-> r.offset, size |-> r.size, found |-> TRUE]
                  ELSE journal_location
           /\ pc' = IF r.ok THEN "located" ELSE "not_located"
    /\ UNCHANGED <<forensic_analysis, directory_tree, image, partition_offset, start_seq, end_seq, offset, block_buffer, header,
                   current_transaction_seq, current_descriptors, transactions, hist>>

(***************************************************************************)
(* Specification SpecLocate: any sequence of locateJournal calls, manual   *)
(* or automatic, on one reader over one EXT image.                         *)
(***************************************************************************)
\* data with bytes stored at byte offset off.
Put(data, off, bytes) ==
    [i \in 1..(IF Len(data) > off + Len(bytes) THEN Len(data) ELSE off + Len(bytes)) |->
        IF i > off /\ i <= off + Len(bytes) THEN bytes[i - off] ELSE ByteAt(data, i - 1)]

\* Block 0 of the partition: the superblock lies at byte 1024, with 4 KiB
\* blocks (s_log_block_size = 2) and 128-byte inodes.
SuperblockBlock(ext_magic, feature_compat) ==
    Readable(Put(Put(Put(Put(<<>>, 1024 + 24, little32(U32(2))),
                         1024 + 56, little16(ext_magic)),
                     1024 + 88, little16(EXT4_INODE_SIZE)),
                 1024 + 92, little32(U32(feature_compat))))

\* Block 1: the group descriptor, inode table in block 2.
GroupDescBlock == Readable(Put(<<>>, 8, little32(U32(2))))

\* Block 2: the inode table, with inode 8 in slot 7.
InodeTableBlock(journal_inode) == Readable(Put(<<>>, 7 * EXT4_INODE_SIZE, journal_inode))

DirectInode(journal_block) ==
    Put(Put(<<>>, 4, little32(U32(2 * BLOCK_SIZE))), 40, little32(U32(journal_block)))

ExtentInode(extent_magic, journal_block) ==
    Put(Put(Put(Put(Put(<<>>, 4, little32(U32(2 * BLOCK_SIZE))),
                        32, little32(<<0, 8, 0, 0>>)),
                    40, little16(extent_magic)),
                42, little16(1)),
            60, little32(U32(journal_block)))

JournalInodes == {DirectInode(3), DirectInode(0), ExtentInode(62218, 3), ExtentInode(0, 3)}

\* Blocks 4..8, when present: block 8 lies at the first fallback offset, 32768.
FallbackTails == {<<>>, <<ZeroBlock, ZeroBlock, ZeroBlock, ZeroBlock,
                          ControlBlock(SUPERBLOCK_V2, U32Zero)>>}

\* Block 0 of a partition whose superblock has s_log_block_size = 7, that is
\* 1024 << 7 = 128 KiB blocks: inode 8 lies in slot 7 of block 0 (inode table
\* in block 0) and names block 1, at byte 131072, as the journal's first block.
BigBlockSuperblock ==
    Readable(Put(Put(Put(Put(Put(<<>>, 7 * EXT4_INODE_SIZE, DirectInode(1)),
                             1024 + 24, little32(U32(7))),
                         1024 + 56, little16(61267)),
                     1024 + 88, little16(EXT4_INODE_SIZE)),
                 1024 + 92, little32(U32(4))))

\* The 4 KiB block at byte 131072 holds the group descriptor of that layout
\* (inode table block 0, in its bytes 8..11) and is the journal's first block.
BigBlockImages ==
    {<<BigBlockSuperblock>> \o [i \in 1..31 |-> ZeroBlock] \o <<first>> :
        first \in {ControlBlock(SUPERBLOCK_V2, U32Zero), ZeroBlock}}

LocateImages ==
    {<<sb, gd, table, first>> \o tail :
        sb \in {SuperblockBlock(ext_magic, feature_compat) :
                    ext_magic \in {61267, 0}, feature_compat \in {4, 0}},
        gd \in {GroupDescBlock, Unreadable},
        table \in {InodeTableBlock(journal_inode) : journal_inode \in JournalInodes},
        first \in {ControlBlock(SUPERBLOCK_V2, U32Zero), ZeroBlock}, tail \in FallbackTails}
    \cup BigBlockImages

ManualOffsets == {0, 3 * BLOCK_SIZE}
ManualSizes == {0, 2 * BLOCK_SIZE}

InitLocate ==
    /\ image \in LocateImages
    /\ partition_offset = 0
    /\ journal_location = [offset |-> 0, size |-> 0, found |-> FALSE]
    /\ start_seq = -1 /\ end_seq = -1
    /\ pc = "idle"
    /\ offset = 0
    /\ block_buffer = <<>>
    /\ header = NoHeader
    /\ current_transaction_seq = U32Zero
    /\ current_descriptors = <<>>
    /\ transactions = <<>>
    /\ hist = HistInit
    /\ directory_tree = TreeInit
    /\ forensic_analysis = ForensicAnalysis

NextLocate ==
    \/ \E manual_offset \in ManualOffsets, manual_size \in ManualSizes :
           LocateManual(manual_offset, manual_size)
    \/ LocateAuto(-1)

SpecLocate == InitLocate /\ [][NextLocate]_vars

\* C10: after any sequence of locate calls on one reader, manual or automatic,
\* if the last call reported failure then isJournalFound() is false.
C10_FailedLocateInvalid ==
    pc = "not_located" => ~isJournalFound

(***************************************************************************)
(* Specification SpecRead: setPartitionOffset and readBytes calls on one   *)
(* reader over one image.  hist.reads holds the last request and the       *)
(* partition offset it was made under, pc whether it succeeded.            *)
(***************************************************************************)
\* ImageHandler::setPartitionOffset, image_handler.cpp:114-121
setPartitionOffset(new_offset) ==
    /\ partition_offset' = IF new_offset < 0 THEN 0 ELSE new_offset
    /\ UNCHANGED <<forensic_analysis, directory_tree, image, journal_location, start_seq, end_seq, pc, offset, block_buffer,
                   header, current_transaction_seq, current_descriptors, transactions, hist>>

ReadImages ==
    {<<ControlBlock(COMMIT, U32(1))>>, <<DirBlock, ControlBlock(COMMIT, U32(1))>>,
     <<DirBlock, Unreadable, ZeroBlock>>}
PartitionOffsets == {-BLOCK_SIZE, 0, BLOCK_SIZE}
ReadAddrs == {-BLOCK_SIZE, -1, 0, 4, BLOCK_SIZE}
ReadSizes == {0, JOURNAL_HEADER_SIZE, BLOCK_SIZE, 2 * BLOCK_SIZE, MAX_READ_SIZE, MAX_READ_SIZE + 1}

InitRead ==
    /\ image \in ReadImages
    /\ partition_offset = 0
    /\ journal_location = [offset |-> 0, size |-> 0, found |-> FALSE]
    /\ start_seq = -1 /\ end_seq = -1
    /\ pc = "idle"
    /\ offset = 0
    /\ block_buffer = <<>>
    /\ header = NoHeader
    /\ current_transaction_seq = U32Zero
    /\ current_descriptors = <<>>
    /\ transactions = <<>>
    /\ hist = HistInit
    /\ directory_tree = TreeInit
    /\ forensic_analysis = ForensicAnalysis

ReadCall(addr, size) ==
    /\ LET r == readBytes(image, partition_offset, addr, size)
       IN  /\ block_buffer' = r.data
           /\ pc' = IF r.ok THEN "read_ok" ELSE "read_failed"
    /\ offset' = addr
    /\ hist' = [hist EXCEPT !.reads = <<[offset |-> addr, size |-> size,
                                         partition |-> partition_offset]>>]
    /\ UNCHANGED <<forensic_analysis, directory_tree, image, partition_offset, journal_location, start_seq, end_seq, header,
                   current_transaction_seq, current_descriptors, transactions>>

NextRead ==
    \/ \E new_offset \in PartitionOffsets : setPartitionOffset(new_offset)
    \/ \E addr \in ReadAddrs, size \in ReadSizes : ReadCall(addr, size)

SpecRead == InitRead /\ [][NextRead]_vars

\* The number of bytes of the image from byte pos on that a read can obtain.
Obtainable(pos) ==
    IF pos < 0 \/ pos >= Len(image) * BLOCK_SIZE THEN 0
    ELSE LET k == pos \div BLOCK_SIZE + 1
             bad == {j \in k..Len(image) : ~image[j].readable}
             stop == IF bad = {} THEN Len(image) + 1
                     ELSE CHOOSE j \in bad : \A i \in bad : j <= i
         IN  IF stop = k THEN 0 ELSE (stop - 1) * BLOCK_SIZE - pos

\* C11: a read(addr, len) is rejected whenever addr < 0, len = 0 or
\* len > 1 MiB, for every configured partition offset, and a read that
\* obtains fewer bytes than requested fails.
C11_ReadRejected ==
    pc \in {"read_ok", "read_failed"} =>
        LET addr == hist.reads[1].offset
            len == hist.reads[1].size
        IN  /\ (addr < 0 \/ len = 0 \/ len > 1048576) => pc = "read_failed"
            /\ Obtainable(addr + hist.reads[1].partition) < len => pc = "read_failed"

(***************************************************************************)
(* Properties of auto-discovery (specification SpecLocate).                *)
(***************************************************************************)
\* s_log_block_size of the image's superblock, the u32 at offset 24.
SuperblockLogBlockSize ==
    LET sb == Skip(image[1].data, 1024)
    IN  ((ByteAt(sb, 27) * 256 + ByteAt(sb, 26)) * 256 + ByteAt(sb, 25)) * 256 + ByteAt(sb, 24)

\* C12: auto-discovery rejects a superblock whose log_block_size does not give
\* a block size in {1024, ..., 65536}: the locate call fails and leaves no
\* journal location derived from that block size.
C12_BlockSizeValidated ==
    [][(SuperblockLogBlockSize \notin 0..6 /\ LocateAuto(-1))
           => (pc' = "not_located" /\ journal_location' = journal_location)]_vars

(***************************************************************************)
(* Specification SpecRun: main, main.cpp:175-225, with arguments that      *)
(* passed the validation of main.cpp:123-156.  pc follows main: the image  *)
(* is opened, the journal located, parseJournal scans it and the records   *)
(* are exported; "exit_0" is return 0 after the CSV was written,           *)
(* "exit_1_open", "exit_1_locate" and "exit_1_output" are the return 1 of  *)
(* lines 185, 198 and 215, none of which leaves a CSV of records.          *)
(***************************************************************************)
\* An EXT partition and the two blocks of its journal, at blocks 3 and 4.
RunImages ==
    {<<sb, GroupDescBlock, table, first, second>> :
        sb \in {SuperblockBlock(ext_magic, 4) : ext_magic \in {61267, 0}},
        table \in {InodeTableBlock(journal_inode) : journal_inode \in JournalInodes},
        first \in {ControlBlock(SUPERBLOCK_V2, U32Zero),
                   DescriptorBlock(U32(1), <<BadTag, GoodTag7>>), ZeroBlock},
        second \in JournalBlocks}

InitRun ==
    /\ image \in RunImages
    /\ partition_offset = 0
    /\ journal_location = [offset |-> 0, size |-> 0, found |-> FALSE]
    /\ \E f \in Filters : start_seq = f[1] /\ end_seq = f[2]
    /\ pc = "main_open"
    /\ offset = 0
    /\ block_buffer = <<>>
    /\ header = NoHeader
    /\ current_transaction_seq = U32Zero
    /\ current_descriptors = <<>>
    /\ transactions = <<>>
    /\ hist = HistInit
    /\ directory_tree = TreeInit
    /\ forensic_analysis = ForensicAnalysis

\* openImage, main.cpp:183-186: whether the file opens is up to the environment.
MainOpen ==
    /\ pc = "main_open"
    /\ \E opened \in BOOLEAN : pc' = IF opened THEN "main_locate" ELSE "exit_1_open"
    /\ UNCHANGED <<forensic_analysis, directory_tree, image, partition_offset, journal_location, start_seq, end_seq, offset,
                   block_buffer, header, current_transaction_seq, current_descriptors,
                   transactions, hist>>

\* locateJournal(journal_offset, journal_size, verbose), main.cpp:196
MainLocateManual ==
    /\ pc = "main_locate"
    /\ LocateManual(3 * BLOCK_SIZE, 2 * BLOCK_SIZE)

MainLocateAuto ==
    /\ pc = "main_locate"
    /\ LocateAuto(-1)

\* main.cpp:196-203
MainLocated ==
    /\ pc \in {"located", "not_located"}
    /\ pc' = IF pc = "located" THEN "start" ELSE "exit_1_locate"
    /\ UNCHANGED <<forensic_analysis, directory_tree, image, partition_offset, journal_location, start_seq, end_seq, offset,
                   block_buffer, header, current_transaction_seq, current_descriptors,
                   transactions, hist>>

\* exportToCSV, main.cpp:213-216: whether the output file can be written is up
\* to the environment.
MainExport ==
    /\ pc = "done"
    /\ \E written \in BOOLEAN : pc' = IF written THEN "exit_0" ELSE "exit_1_output"
    /\ UNCHANGED <<forensic_analysis, directory_tree, image, partition_offset, journal_location, start_seq, end_seq, offset,
                   block_buffer, header, current_transaction_seq, current_descriptors,
                   transactions, hist>>

NextRun ==
    \/ MainOpen
    \/ MainLocateManual
    \/ MainLocateAuto
    \/ MainLocated
    \/ BeginScan
    \/ ReadFailed
    \/ InvalidHeader
    \/ SkipBelowStart
    \/ HaltAboveEnd
    \/ ScanDescriptor
    \/ ScanCommit
    \/ ScanRevocation
    \/ ScanSuperblock
    \/ ScanOtherType
    \/ Finish
    \/ MainExport

SpecRun == InitRun /\ [][NextRun]_vars

\* main has returned.
RunEnded == pc \in {"exit_0", "exit_1_open", "exit_1_locate", "exit_1_output"}

\* C13: a run is fatal (exit 1, no CSV of records) only for a configuration
\* error or a failure to open the image; decode errors (unrecognised journal
\* magic, malformed superblock, invalid extent header, malformed records) are
\* local skips, after which the run writes the CSV and exits 0.
C13_OnlyOpenIsFatal ==
    (RunEnded /\ pc # "exit_0") => pc \in {"exit_1_open", "exit_1_output"}

(***************************************************************************)
(* Data blocks for the classifier and the sub-decoders.                    *)
(***************************************************************************)
\* A block of 1024 words: word k is value when k is one of the first n words
\* that are neither word 0 (the inode of a first directory entry) nor word 6
\* of a 128-byte slot (gid and links_count), word 1023 is last, the rest zero.
PatternBlock(n, value, last) ==
    LET eligible(k) == k # 0 /\ k % 32 # 6 /\ k < 1023
        rank(k) == k - ((k + 26) \div 32)
        word(k) == IF k = 1023 THEN last
                   ELSE IF eligible(k) /\ rank(k) <= n THEN value
                   ELSE U32Zero
    IN  Readable([i \in 1..BLOCK_SIZE |-> little32(word((i - 1) \div 4))[((i - 1) % 4) + 1]])

PatternBlocks ==
    {PatternBlock(n, value, last) :
        n \in {255, 256, 257}, value \in {U32(1), <<0, 255, 255, 255>>},
        last \in {U32Zero, U32(1), <<0, 255, 255, 255>>}}

\* A 128-byte inode slot with the given mode and links_count.
InodeSlot(mode, links_count) ==
    Put(Put(<<>>, 0, little16(mode)), 26, little16(links_count))
       \o [i \in 1..(EXT4_INODE_SIZE - 28) |-> 0]

\* Modes: regular file, directory, symlink, fifo, socket, char and block
\* device, a mode with no type bits, and 0.
InodeModes == {33188, 16877, 41471, 4480, 49645, 8612, 25008, 420, 0}

InodeBlocks ==
    {Readable(InodeSlot(m1, l1) \o InodeSlot(m2, 1) \o InodeSlot(0, 1) \o InodeSlot(m3, 65535)) :
        m1 \in InodeModes, l1 \in {0, 1}, m2 \in {0, 16877}, m3 \in {0, 33188}}

\* Blocks that begin with one directory entry header.
EntryHeadBlocks ==
    {Readable(little32(inode) \o little16(rec_len) \o <<name_len, 1>> \o <<97>>) :
        inode \in {U32Zero, U32(12), <<0, 255, 255, 255>>, <<0, 255, 255, 254>>},
        rec_len \in {7, 8, 12, BLOCK_SIZE, BLOCK_SIZE + 1},
        name_len \in {0, 1, 255}}

\* A directory block whose only entries are "." and "..", both inode 2.
DotBlock == Readable(DirEntryBytes(2, 12, 2, DOT, 3) \o DirEntryBytes(2, 4084, 2, DOTDOT, 2))

\* "ab", "a~b", "c~" and "x.tmp"
NAME_AB == <<97, 98>>
NAME_TILDE_INSIDE == <<97, 126, 98>>
NAME_TILDE_END == <<99, 126>>
NAME_TMP == <<120, 46, 116, 109, 112>>
EntryNames == {NAME_AB, NAME_TILDE_INSIDE, NAME_TILDE_END, NAME_TMP}

\* Directory blocks of two entries, inode 12 and inode 13, each a regular
\* file (file_type 1) or a directory (file_type 2).
NamedDirBlocks ==
    {Readable(DirEntryBytes(12, 16, ft1, name1, 8 - Len(name1))
              \o DirEntryBytes(13, 4080, ft2, name2, 0)) :
        name1 \in EntryNames, ft1 \in {1, 2}, name2 \in EntryNames, ft2 \in {1, 2}}

\* The blocks with a short leading part, which the scan takes as data blocks.
ShortBlocks == InodeBlocks \cup EntryHeadBlocks \cup {DotBlock, DirBlock, ZeroBlock}

ClassifierBlocks == PatternBlocks \cup ShortBlocks

(***************************************************************************)
(* Specification SpecClassify: identifyBlockType applied to one 4 KiB      *)
(* block, as the commit case applies it (journal_parser.cpp:252); pc holds *)
(* the content type returned.                                              *)
(***************************************************************************)
InitClassify ==
    /\ image \in {<<blk>> : blk \in ClassifierBlocks}
    /\ partition_offset = 0
    /\ journal_location = [offset |-> 0, size |-> BLOCK_SIZE, found |-> TRUE]
    /\ start_seq = -1 /\ end_seq = -1
    /\ pc = "classify"
    /\ offset = 0
    /\ block_buffer = <<>>
    /\ header = NoHeader
    /\ current_transaction_seq = U32Zero
    /\ current_descriptors = <<>>
    /\ transactions = <<>>
    /\ hist = HistInit
    /\ directory_tree = TreeInit
    /\ forensic_analysis = ForensicAnalysis

Classify ==
    /\ pc = "classify"
    /\ LET r == readBytes(image, partition_offset, offset, BLOCK_SIZE)
       IN  /\ r.ok
           /\ block_buffer' = r.data
           /\ pc' = identifyBlockType(r.data, BLOCK_SIZE)
    /\ UNCHANGED <<forensic_analysis, directory_tree, image, partition_offset, journal_location, start_seq, end_seq, offset,
                   header, current_transaction_seq, current_descriptors, transactions, hist>>

NextClassify == Classify

SpecClassify == InitClassify /\ [][NextClassify]_vars

\* The reference classifier of a 4 KiB block.
RefU16(data, off) == ByteAt(data, off) + 256 * ByteAt(data, off + 1)

\* The u32 at off is non-zero and below 0x00FFFFFF.
RefSmallWord(data, off) ==
    LET low == ByteAt(data, off) + 256 * ByteAt(data, off + 1) + 65536 * ByteAt(data, off + 2)
    IN  ByteAt(data, off + 3) = 0 /\ low > 0 /\ low < 16777215

RefValidInodes(data) ==
    Cardinality({slot \in 0..31 :
        /\ RefU16(data, slot * 128) # 0
        /\ RefU16(data, slot * 128 + 26) >= 1
        /\ RefU16(data, slot * 128 + 26) < 65536})

RefClassify(data) ==
    IF RefValidInodes(data) >= 2 THEN "INODE_TABLE"
    ELSE IF /\ RefSmallWord(data, 0)
            /\ RefU16(data, 4) >= 8 /\ RefU16(data, 4) <= 4096
            /\ ByteAt(data, 6) >= 1 /\ ByteAt(data, 6) < 256
    THEN "DIRECTORY"
    ELSE IF Cardinality({k \in 0..1023 : RefSmallWord(data, 4 * k)}) > 4096 \div 16
    THEN "METADATA"
    ELSE "FILE_DATA"

\* C14: identifyBlockType equals the reference classifier for every 4 KiB
\* block: inode_table with at least 2 valid inode slots, else directory by the
\* first entry, else metadata when more than size/16 of the aligned words of
\* the whole block are non-zero and below 0x00FFFFFF, else file_data.
C14_ReferenceClassifier ==
    pc # "classify" => pc = RefClassify(block_buffer)

(***************************************************************************)
(* Specification SpecTree: a DirectoryTreeBuilder driven through its       *)
(* public calls addDirectoryEntry, addInodeInfo and buildFullPath.         *)
(***************************************************************************)
NAME_A == <<97>>
NAME_B == <<98>>

\* The directory entries added: <<dir_inode, entry.inode, entry.name>>.
TreeEntries ==
    {<<100, 200, NAME_A>>, <<200, 100, NAME_B>>, <<100, 100, NAME_A>>,
     <<2, 100, NAME_B>>, <<100, 2, NAME_A>>, <<100, 11, NAME_A>>,
     <<100, 200, DOT>>, <<100, 200, DOTDOT>>, <<100, 200, <<>> >>, <<100, 0, NAME_A>>}

TreeInodes == {2, 11, 100, 200, 300}

\* The add_inode_info calls: inode 300 never has a node; the modes are a
\* regular file (0x81A4), a directory (0x41ED) and a block device (0x61B0).
InfoInodes == {100, 300}
InfoModes == {33188, 16877, 25008}

TreeEntry(e) == [inode |-> e[2], name |-> e[3], file_type |-> EXT4_FT_DIR_DIR]

InitTree ==
    /\ image = <<>>
    /\ partition_offset = 0
    /\ journal_location = [offset |-> 0, size |-> 0, found |-> FALSE]
    /\ start_seq = -1 /\ end_seq = -1
    /\ pc = "tree"
    /\ offset = 0
    /\ block_buffer = <<>>
    /\ header = NoHeader
    /\ current_transaction_seq = U32Zero
    /\ current_descriptors = <<>>
    /\ transactions = <<>>
    /\ hist = HistInit
    /\ directory_tree = TreeInit
    /\ forensic_analysis = ForensicAnalysis

TreeUnchanged ==
    UNCHANGED <<image, partition_offset, journal_location, start_seq, end_seq, pc, offset,
                block_buffer, header, current_transaction_seq, current_descriptors,
                transactions, forensic_analysis>>

TreeAddEntry(dir_inode, entry) ==
    /\ pc = "tree"
    /\ directory_tree' = addDirectoryEntry(directory_tree, dir_inode, entry)
    /\ hist' = [hist EXCEPT !.last_path = <<>>]
    /\ TreeUnchanged

TreeAddInodeInfo(inode, mode) ==
    /\ pc = "tree"
    /\ directory_tree' = addInodeInfo(directory_tree, inode, mode)
    /\ hist' = [hist EXCEPT !.last_path = <<>>]
    /\ TreeUnchanged

TreeBuildFullPath(inode) ==
    /\ pc = "tree"
    /\ LET b == buildFullPath(directory_tree, inode)
       IN  /\ directory_tree' = b.tree
           /\ hist' = [hist EXCEPT !.last_path =
                          <<[inode |-> inode, path |-> b.path, depth |-> b.depth]>>]
    /\ TreeUnchanged

NextTree ==
    \/ \E e \in TreeEntries : TreeAddEntry(e[1], TreeEntry(e))
    \/ \E inode \in InfoInodes, mode \in InfoModes : TreeAddInodeInfo(inode, mode)
    \/ \E inode \in TreeInodes : TreeBuildFullPath(inode)

SpecTree == InitTree /\ [][NextTree]_vars

\* Following the parent pointers from inode leads into a cycle (the root
\* being its own parent, as constructed, is the end of a chain, not a cycle).
RECURSIVE WalkCycles(_, _)
WalkCycles(inode, seen) ==
    LET nodes == directory_tree.nodes
    IN  IF inode \notin DOMAIN nodes THEN FALSE
        ELSE IF inode = EXT4_ROOT_INODE /\ nodes[inode].parent_inode = EXT4_ROOT_INODE
        THEN FALSE
        ELSE IF inode \in seen THEN TRUE
        ELSE WalkCycles(nodes[inode].parent_inode, seen \cup {inode})

CycleReachable(inode) == WalkCycles(inode, {})

\* "cycle_detected"
CYCLE_DETECTED == <<99, 121, 99, 108, 101, 95, 100, 101, 116, 101, 99, 116, 101, 100>>

\* C15: when a cycle is reachable through the parent pointers from the inode
\* queried (a node that is its own parent and a cycle through inode 2
\* included), build_full_path returns with a nesting depth bounded by the
\* number of nodes and its result contains cycle_detected.
C15_CycleDetected ==
    \A k \in 1..Len(hist.last_path) :
        CycleReachable(hist.last_path[k].inode) =>
            /\ hist.last_path[k].depth <= Cardinality(DOMAIN directory_tree.nodes) + 1
            /\ Contains(hist.last_path[k].path, CYCLE_DETECTED)

\* The parent pointers from inode end at inode 2, at inode 11 or at an inode
\* without a node, without passing a node twice.
RECURSIVE WalkEnds(_, _)
WalkEnds(inode, seen) ==
    LET nodes == directory_tree.nodes
    IN  IF inode \in {EXT4_ROOT_INODE, EXT4_LOST_FOUND_INODE} \/ inode \notin DOMAIN nodes
        THEN TRUE
        ELSE IF inode \in seen THEN FALSE
        ELSE WalkEnds(nodes[inode].parent_inode, seen \cup {inode})

Resolvable(inode) ==
    /\ inode \in DOMAIN directory_tree.nodes =>
           directory_tree.nodes[inode].parent_inode # inode
    /\ WalkEnds(inode, {})

\* The path that the parent pointers and names of the tree imply.
RECURSIVE ImpliedPath(_)
ImpliedPath(inode) ==
    LET nodes == directory_tree.nodes
        parent_path == ImpliedPath(nodes[inode].parent_inode)
    IN  IF inode = EXT4_ROOT_INODE THEN SLASH
        ELSE IF inode = EXT4_LOST_FOUND_INODE THEN LOST_FOUND_PATH
        ELSE IF inode \notin DOMAIN nodes THEN UNKNOWN_INODE_PREFIX \o to_string(inode)
        ELSE IF parent_path = SLASH THEN SLASH \o nodes[inode].name
        ELSE parent_path \o SLASH \o nodes[inode].name

NoStalePath ==
    \A inode \in DOMAIN directory_tree.path_cache :
        Resolvable(inode) => directory_tree.path_cache[inode] = ImpliedPath(inode)

MutatingCall ==
    \E e \in TreeEntries : ~EntrySkipped(TreeEntry(e)) /\ TreeAddEntry(e[1], TreeEntry(e))

NonMutatingCall ==
    \/ \E inode \in TreeInodes : TreeBuildFullPath(inode)
    \/ \E inode \in InfoInodes, mode \in InfoModes : TreeAddInodeInfo(inode, mode)
    \/ \E e \in TreeEntries : EntrySkipped(TreeEntry(e)) /\ TreeAddEntry(e[1], TreeEntry(e))

CacheKept ==
    \A inode \in DOMAIN directory_tree.path_cache :
        /\ inode \in DOMAIN directory_tree'.path_cache
        /\ directory_tree'.path_cache[inode] = directory_tree.path_cache[inode]

\* C16: the path cache holds no stale entry: an add_entry that is not skipped
\* leaves the cache empty, every cached path is the path that the current
\* parent pointers and names imply, and build_full_path, add_inode_info and a
\* skipped add_entry keep every cached path.
C16_NoStaleCache ==
    /\ []NoStalePath
    /\ [][MutatingCall => directory_tree'.path_cache = <<>>]_vars
    /\ [][NonMutatingCall => CacheKept]_vars

\* C16 witness: 200 ("a") lies under 100 ("b") under the root, the cache was
\* emptied by an add_entry and the query of 200 has filled it again.
C16_Witness ==
    /\ Len(hist.last_path) = 1
    /\ hist.last_path[1].inode = 200
    /\ hist.last_path[1].path = SLASH \o NAME_B \o SLASH \o NAME_A
    /\ DOMAIN directory_tree.path_cache = {200, 100}

\* C17: whatever calls came before (add_entry with child inode 2 or 11
\* included), build_full_path(2) returns "/" and build_full_path(11) returns
\* "/lost+found".
C17_FixedPaths ==
    \A k \in 1..Len(hist.last_path) :
        /\ hist.last_path[k].inode = 2 => hist.last_path[k].path = <<47>>
        /\ hist.last_path[k].inode = 11 =>
               hist.last_path[k].path = <<47, 108, 111, 115, 116, 43, 102, 111, 117, 110, 100>>

\* C17 witness: inode 11 and inode 2 were both added as children of 100, the
\* cache was emptied, and build_full_path(11) has been called.
C17_Witness ==
    /\ Len(hist.last_path) = 1
    /\ hist.last_path[1].inode = 11
    /\ 11 \in DOMAIN directory_tree.nodes
    /\ directory_tree.nodes[11].name = NAME_A
    /\ directory_tree.nodes[2].name = NAME_A
    /\ 2 \notin DOMAIN directory_tree.path_cache

\* C18: the root node (inode 2) has parent_inode 2 in every reachable state
\* of the tree builder.
C18_RootIsOwnParent ==
    directory_tree.nodes[EXT4_ROOT_INODE].parent_inode = EXT4_ROOT_INODE

(***************************************************************************)
(* Specification SpecData: parseJournal over a journal of three blocks, a  *)
(* descriptor block with one tag (fs_block_num 42), one data block and the *)
(* commit block.                                                           *)
(***************************************************************************)
InitData ==
    /\ image \in {<<DescriptorBlock(sequence, <<GoodTag42>>), blk, ControlBlock(COMMIT, sequence)>> :
                     blk \in ShortBlocks \cup NamedDirBlocks \cup {Unreadable},
                     sequence \in {U32(1), UINT32_MAX}}
    /\ partition_offset = 0
    /\ journal_location = [offset |-> 0, size |-> 3 * BLOCK_SIZE, found |-> TRUE]
    /\ start_seq = -1 /\ end_seq = -1
    /\ pc = "start"
    /\ offset = 0
    /\ block_buffer = <<>>
    /\ header = NoHeader
    /\ current_transaction_seq = U32Zero
    /\ current_descriptors = <<>>
    /\ transactions = <<>>
    /\ hist = HistInit
    /\ directory_tree = TreeInit
    /\ forensic_analysis = ForensicAnalysis

NextData ==
    \/ BeginScan
    \/ ReadFailed
    \/ ScanDescriptor
    \/ InvalidHeader
    \/ ScanCommit
    \/ Finish

SpecData == InitData /\ [][NextData]_vars

\* The data records of the scan and the bytes of the data block.
DataRecordsEmitted == SelectSeq(transactions, LAMBDA r : r.block_type = "data")
DataBlockBytes == image[2].data

\* The mode table: the file type of a mode by its bits 0xF000, "" without a row.
ModeTable(mode) ==
    LET bits == mode \div 4096
    IN  CASE bits = 8 -> "regular_file"
          [] bits = 4 -> "directory"
          [] bits = 10 -> "symlink"
          [] bits = 2 -> "char_device"
          [] bits = 6 -> "block_device"
          [] bits = 1 -> "fifo"
          [] bits = 12 -> "socket"
          [] OTHER -> ""

\* The mode of the first valid inode slot of the block.
FirstValidMode(data) ==
    LET valid == {slot \in 0..31 : /\ RefU16(data, slot * 128) # 0
                                   /\ RefU16(data, slot * 128 + 26) >= 1}
        first == CHOOSE slot \in valid : \A other \in valid : slot <= other
    IN  RefU16(data, first * 128)

ClassifiedInodeTable(r) == r.operation_type \in {"inode_update", "inode_batch_update"}

\* C19 as stated: every data record classified inode_table has a file_type of
\* the mode table (regular_file, directory, symlink, char_device,
\* block_device, fifo, socket), the row of mode & 0xF000 of the first valid
\* inode of the block.
C19_FileTypeFromModeTable ==
    \A k \in 1..Len(DataRecordsEmitted) :
        ClassifiedInodeTable(DataRecordsEmitted[k]) =>
            DataRecordsEmitted[k].file_type = ModeTable(FirstValidMode(DataBlockBytes))

\* C19 amended: every data record classified inode_table has the file_type
\* of the mode table row of mode & 0xF000 of the first valid inode of the
\* block, and "unknown" when those bits have no row in the table.
C19_FileTypeOrUnknown ==
    \A k \in 1..Len(DataRecordsEmitted) :
        ClassifiedInodeTable(DataRecordsEmitted[k]) =>
            DataRecordsEmitted[k].file_type =
                IF ModeTable(FirstValidMode(DataBlockBytes)) = "" THEN "unknown"
                ELSE ModeTable(FirstValidMode(DataBlockBytes))

\* C19 witness: the scan is done and the record of an inode table block whose
\* first valid inode is a symlink (mode 0xA1FF) has been emitted.
C19_Witness ==
    /\ pc = "done"
    /\ Len(DataRecordsEmitted) = 1
    /\ ClassifiedInodeTable(DataRecordsEmitted[1])
    /\ FirstValidMode(DataBlockBytes) = 41471
    /\ DataRecordsEmitted[1].file_type = "symlink"

\* C20: for a directory block whose only entries are "." and ".." the block
\* is classified directory, no DirectoryNode is added and no record with
\* filename "." or ".." is emitted.
C20_DotEntriesSkipped ==
    (pc = "done" /\ image[2] = DotBlock) =>
        /\ \A k \in 1..Len(DataRecordsEmitted) :
               /\ DataRecordsEmitted[k].file_type = "directory"
               /\ DataRecordsEmitted[k].filename \notin {DOT, DOTDOT}
        /\ DOMAIN directory_tree.nodes = {EXT4_ROOT_INODE}

\* The directory entries of the data block, and the entry a record was
\* emitted for.
DirEntriesOfBlock ==
    {e \in {parseDirectoryBlock(DataBlockBytes, BLOCK_SIZE).entries[k] :
                k \in 1..Len(parseDirectoryBlock(DataBlockBytes, BLOCK_SIZE).entries)} :
        e.name \notin {DOT, DOTDOT}}
EntryRecord(r, e) ==
    /\ r.file_type = "directory"
    /\ r.filename = e.name
    /\ r.inode_number = e.inode

\* The operation a directory entry denotes by its own file_type.
OwnOperation(e) ==
    IF e.file_type = EXT4_FT_DIR_DIR THEN "directory_created" ELSE "file_created"

\* C21: each record emitted for a directory entry (other than "." and "..")
\* has the operation_type of that entry's own file_type: directory_created
\* for a directory entry, file_created otherwise, also when the block holds
\* several entries of different types.
C21_OperationPerEntry ==
    pc = "done" =>
        \A k \in 1..Len(DataRecordsEmitted) : \A e \in DirEntriesOfBlock :
            EntryRecord(DataRecordsEmitted[k], e) =>
                DataRecordsEmitted[k].operation_type = OwnOperation(e)

\* The change a name denotes: modified_entry when it ends with "~" or
\* contains ".tmp", new_entry for any other name.
OwnChange(name) ==
    IF \/ (Len(name) > 0 /\ name[Len(name)] = 126)
       \/ \E i \in 1..(Len(name) - 3) : SubSeq(name, i, i + 3) = <<46, 116, 109, 112>>
    THEN "modified_entry" ELSE "new_entry"

\* C22: the change_type of a directory-entry record is modified_entry
\* exactly when the entry's name ends with "~" or contains ".tmp", and
\* new_entry for any other name of a new entry.
C22_ChangePerEntry ==
    pc = "done" =>
        \A k \in 1..Len(DataRecordsEmitted) : \A e \in DirEntriesOfBlock :
            EntryRecord(DataRecordsEmitted[k], e) =>
                DataRecordsEmitted[k].change_type = OwnChange(e.name)

\* C23: add_inode_info(inode, record) sets is_directory of an existing node
\* to TRUE exactly when mode & 0xF000 is 0x4000 and to FALSE for every other
\* file type; without a node for inode, the node table and the path cache
\* are left unchanged.
C23_AddInodeInfo ==
    [][\A inode \in InfoInodes, mode \in InfoModes :
          TreeAddInodeInfo(inode, mode) =>
              IF inode \in DOMAIN directory_tree.nodes
              THEN directory_tree'.nodes[inode].is_directory = (mode \div 4096 = 4)
              ELSE directory_tree' = directory_tree]_vars

\* The records that count as metadata indicators: an operation_type holding
\* "inode", "directory" or "metadata".
IndicatorCount ==
    Cardinality({k \in 1..Len(transactions) :
        transactions[k].operation_type \in
            {"inode_update", "inode_batch_update", "directory_update",
             "directory_created", "metadata_update"}})

\* C24: at the end of the scan the inferred JournalMode follows the rules in
\* order: Ordered if there are no data records and at least one descriptor;
\* else Journal if data records > 0.5 * descriptors; else Ordered if
\* descriptors > 0 and metadata indicators > 0.8 * descriptors; else Unknown.
C24_JournalMode ==
    pc = "done" =>
        forensic_analysis.detected_mode =
            IF CountRecords("data") = 0 /\ CountRecords("descriptor") >= 1
            THEN "ORDERED_MODE"
            ELSE IF 10 * CountRecords("data") > 5 * CountRecords("descriptor")
            THEN "JOURNAL_MODE"
            ELSE IF CountRecords("descriptor") > 0
                    /\ 10 * IndicatorCount > 8 * CountRecords("descriptor")
            THEN "ORDERED_MODE"
            ELSE "UNKNOWN"

\* C24 witness: a finished scan with two descriptor records and no data
\* record, inferred Ordered by the first rule.
C24_Witness ==
    /\ pc = "done"
    /\ CountRecords("descriptor") = 2
    /\ CountRecords("data") = 0
    /\ forensic_analysis.detected_mode = "ORDERED_MODE"

\* The block a record of the scan of SpecData was emitted for: the
\* descriptor block, the commit block, or the data block between them.
BlockOfRecord(r) ==
    IF r.block_type = "descriptor" THEN image[1]
    ELSE IF r.block_type = "commit" THEN image[3]
    ELSE image[2]

\* The hash of the claim over a block of 4096 bytes: the sum of
\* b_i * 31^(4095 - i) over the bytes that are not 0, modulo 2^32.
RECURSIVE HashTerms(_, _)
HashTerms(data, todo) ==
    IF todo = {} THEN U32Zero
    ELSE CHOOSE h \in {U32Add(U32Mul(U32(data[i]), Pow31(BLOCK_SIZE - i)),
                              HashTerms(data, todo \ {i})) :
                          i \in {CHOOSE j \in todo : \A other \in todo : j <= other}} : TRUE
BlockHash(data) == HashTerms(data, {i \in 1..Len(data) : data[i] # 0})

\* The value of a string of hex digits, "" when a character is no digit.
HexNibble(c) ==
    IF c >= 48 /\ c <= 57 THEN c - 48
    ELSE IF c >= 97 /\ c <= 102 THEN c - 87
    ELSE IF c >= 65 /\ c <= 70 THEN c - 55
    ELSE 16
EightHexDigits(str) == Len(str) = 8 /\ \A k \in 1..8 : HexNibble(str[k]) < 16
HexValue(str) ==
    [k \in 1..4 |-> 16 * HexNibble(str[2 * k - 1]) + HexNibble(str[2 * k])]

\* C25: every emitted record's checksum is exactly 8 hex digits and equals
\* the 32-bit hash h = 0; h = (h * 31 + b) mod 2^32 over the bytes of the
\* record's journal block, also for a data record whose block could not be
\* read.
C25_ChecksumOfBlock ==
    \A k \in 1..Len(transactions) :
        /\ EightHexDigits(transactions[k].checksum)
        /\ (BlockOfRecord(transactions[k]).readable =>
               HexValue(transactions[k].checksum)
                   = BlockHash(BlockOfRecord(transactions[k]).data))

\* The part of C25 that holds: the records of the blocks that were read.
C25_ChecksumOfReadBlock ==
    \A k \in 1..Len(transactions) :
        BlockOfRecord(transactions[k]).readable =>
            /\ EightHexDigits(transactions[k].checksum)
            /\ HexValue(transactions[k].checksum)
                   = BlockHash(BlockOfRecord(transactions[k]).data)

\* The block of the image at a byte offset, and the entries of the
\* descriptor block there.
BlockAt(addr) == image[(addr + partition_offset) \div BLOCK_SIZE + 1]
EntriesAt(addr) ==
    parseDescriptorBlock(Skip(BlockAt(addr).data, JOURNAL_HEADER_SIZE),
                         BLOCK_SIZE - JOURNAL_HEADER_SIZE)

\* The fs_block_num of the data records from record i up to the next record
\* that is not a data record.
RECURSIVE DataRun(_)
DataRun(i) ==
    IF i > Len(transactions) \/ transactions[i].block_type # "data" THEN <<>>
    ELSE <<transactions[i].fs_block_num>> \o DataRun(i + 1)

\* C26: a descriptor block that arrives while a batch is pending replaces
\* it: every descriptor block emits its transaction_start record, the
\* pending list is the entry list of the newest descriptor alone, and the
\* data records of each commit are those of the entries of the newest
\* descriptor before it, in order.
C26_NewestDescriptorOnly ==
    /\ hist.opened = Cardinality({k \in 1..Len(transactions) :
                          /\ transactions[k].block_type = "descriptor"
                          /\ transactions[k].operation_type = "transaction_start"})
    /\ (hist.pending /\ pc = "scan") =>
           current_descriptors = EntriesAt(hist.desc_block_offset)
    /\ \A c \in 1..Len(hist.closes) :
           Collapse(DataRun(hist.closes[c].first_record))
               = Collapse([k \in 1..Len(EntriesAt(hist.closes[c].desc_block_offset)) |->
                              EntriesAt(hist.closes[c].desc_block_offset)[k].fs_block_num])

\* C26 witness: the descriptor with the tag of fs block 42 was replaced by
\* the descriptor whose accepted tag is that of fs block 7, and the commit
\* has emitted the one data record, for fs block 7.
C26_Witness ==
    /\ Len(transactions) = 4
    /\ hist.opened = 2
    /\ Len(hist.closes) = 1
    /\ JournalPrefix[1] = DescriptorBlock(U32(1), <<GoodTag42>>)
    /\ transactions[2].block_type = "descriptor"
    /\ transactions[3].block_type = "commit"
    /\ transactions[4].block_type = "data"
    /\ transactions[4].fs_block_num = U32(7)

\* The block the scan step reads: the block of the image at offset.
ScannedBlock == image'[(offset + partition_offset) \div BLOCK_SIZE + 1]
ScannedHeader == parseJournalHeader(ScannedBlock.data)
Skipped == ~ScannedBlock.readable \/ ~ScannedHeader.ok
RecordOnly ==
    /\ ScannedBlock.readable /\ ScannedHeader.ok
    /\ ~BelowStart(ScannedHeader) /\ ~AboveEnd(ScannedHeader)
    /\ ScannedHeader.block_type \in {REVOCATION, SUPERBLOCK_V1, SUPERBLOCK_V2}
BatchKept ==
    /\ current_descriptors' = current_descriptors
    /\ current_transaction_seq' = current_transaction_seq
ScanGoesOn == pc' = "scan" /\ offset' = offset + BLOCK_SIZE

\* C27: only descriptor and commit blocks change the batch state.  A
\* revocation or journal-superblock block emits its one record and leaves
\* the pending descriptor list unchanged; a block whose read fails or whose
\* header magic is not recognized emits no record, leaves the pending list
\* unchanged and does not stop the scan.
C27_BatchFrame ==
    [][InLoop =>
          /\ Skipped => (transactions' = transactions /\ BatchKept /\ ScanGoesOn)
          /\ RecordOnly =>
                 /\ Len(transactions') = Len(transactions) + 1
                 /\ SubSeq(transactions', 1, Len(transactions)) = transactions
                 /\ transactions'[Len(transactions')].block_type =
                        IF ScannedHeader.block_type = REVOCATION THEN "revocation"
                        ELSE "superblock"
                 /\ transactions'[Len(transactions')].operation_type =
                        IF ScannedHeader.block_type = REVOCATION THEN "block_revocation"
                        ELSE "journal_superblock"
                 /\ BatchKept /\ ScanGoesOn
          /\ ~BatchKept =>
                 /\ ScannedBlock.readable /\ ScannedHeader.ok
                 /\ ScannedHeader.block_type \in {DESCRIPTOR, COMMIT}]_vars

\* C27 witness: after the descriptor with the tag of fs block 42, an
\* unreadable block and a revocation block were scanned; the revocation
\* record is the last record and the batch of one entry is still pending.
C27_Witness ==
    /\ pc = "scan"
    /\ Len(JournalPrefix) = 3
    /\ JournalPrefix[1] = DescriptorBlock(U32(1), <<GoodTag42>>)
    /\ JournalPrefix[2] = Unreadable
    /\ offset = journal_location.offset + 3 * BLOCK_SIZE
    /\ Len(transactions) = 2
    /\ transactions[2].block_type = "revocation"
    /\ Len(current_descriptors) = 1
    /\ current_descriptors[1].fs_block_num = U32(42)

\* C28: parseJournal terminates on every journal of finite length and for
\* every 32-bit sequence number in a block header: each iteration of the
\* block scan moves offset on by one block or leaves the loop, and the
\* end-of-scan roll-up never stays in its sequence-gap loop.
C28_Terminates ==
    /\ [][InLoop => (offset' = offset + BLOCK_SIZE \/ pc' # "scan")]_vars
    /\ [](pc # "gap_loop")

\* The journal range [byte_offset, byte_offset + byte_length).
InsideJournal(r) ==
    /\ r.offset >= journal_location.offset
    /\ r.offset + r.size <= journal_location.offset + journal_location.size

\* The block reads of the main scan lie inside the journal range.
ScanReadsInside ==
    \A k \in 1..Len(hist.reads) : hist.reads[k].kind = "scan" => InsideJournal(hist.reads[k])

\* The data-block reads of a commit are never below byte_offset.
DataReadsNotBelow ==
    \A k \in 1..Len(hist.reads) :
        hist.reads[k].kind = "data" => hist.reads[k].offset >= journal_location.offset

\* C29: every read issued during a scan lies inside the journal range
\* [byte_offset, byte_offset + byte_length): the 4 KiB block reads of the
\* main scan, the last block of a byte_length that is no multiple of 4096
\* included, and the data-block reads of a commit, whose address is never
\* below byte_offset.
C29_ReadsInsideJournal ==
    \A k \in 1..Len(hist.reads) : InsideJournal(hist.reads[k])

\* What build_full_path(inode) returns on the node table alone: with an
\* empty path cache and an empty recursion guard.
PathOfNodes(inode) == BuildPath(directory_tree.nodes, <<>>, inode, {}).path

\* The recursion guard is empty whenever no build_full_path call is running.
GuardEmpty == directory_tree.visiting = {}

\* C30: between two tree mutations build_full_path(i) is a function of the
\* node table alone: its result is the same whatever other inodes were
\* queried before it, also when the parent pointers hold a cycle; and the
\* recursion-guard set is empty whenever no call is in progress.
C30_PathOfNodesAlone ==
    /\ GuardEmpty
    /\ \A k \in 1..Len(hist.last_path) :
           hist.last_path[k].path = PathOfNodes(hist.last_path[k].inode)

====
